---- MODULE Spec2Model ----
(***************************************************************************)
(* Retrieval-and-lead-scoring pipeline of the real-estate chat assistant.  *)
(*                                                                         *)
(* The module holds ten specifications over one set of variables:          *)
(*   Spec             the session store and the chat turn                  *)
(*                    (services/chat.py, utils/session.py)                 *)
(*   SpecLead         the lead scorer's pure functions (lead/detector.py)  *)
(*   SpecRag          the retriever's pure functions (retrieval/rag.py)    *)
(*   SpecRetrieval    chat turns against every condition of the vector     *)
(*                    index (retrieval/vector_store.py)                    *)
(*   SpecAdverse      invalid requests, interrupted turns and the expiry   *)
(*                    sweep (app.py, utils/session.py)                     *)
(*   SpecContact      chat turns whose messages carry contact details      *)
(*   SpecContext      chat turns whose requests carry the optional context *)
(*   SpecChunk        chunk_text pass by pass (ingestion/pdf_processor.py) *)
(*   SpecServing      the chat handler statement by statement, scheduled   *)
(*                    as the server's event loop schedules it              *)
(*   SpecInterleaved  the same statements under every schedule             *)
(***************************************************************************)
EXTENDS Integers, Sequences, FiniteSets, TLC

VARIABLES
    build,      \* which float summation the interpreter's builtin sum() uses
    sessions,   \* utils/session.py _sessions: session id -> session record
    now,        \* the wall clock, in hours
    requests,   \* how many chat requests clients have sent
    result,     \* the HTTP response to the last request
    args,       \* the last request and what the store and the provider did for it,
                \* or the arguments of the pure function under examination
                \* (SpecServing, SpecInterleaved: the requests answered so far)
    ret,        \* what that function returned
                \* (SpecServing, SpecInterleaved: the replaced session dicts still held)
    turn        \* what the last chat turn retrieved and handed to the Generation service
                \* (SpecServing, SpecInterleaved: each handler's locals and position)

vars == <<build, sessions, now, requests, result, args, ret, turn>>

None == "none"

\* nothing returned yet
NoReturn == [fn |-> None]

\* no turn has got as far as retrieval
NoTurn == [fn |-> None]

(***************************************************************************)
(* Bounds of the model.                                                    *)
(***************************************************************************)
MaxConvLen == 9    \* conversation lengths examined by SpecLead: 0..MaxConvLen
MaxOrder == 2       \* signal lists in every order (repeats included) up to this length
MaxHits == 3        \* text hits handed to extract_citations by SpecRag
MaxImages == 3      \* image hits handed to rank_images_by_relevance by SpecRag
MaxTurns == 3       \* chat requests sent in a behaviour of Spec
ClockStep == 25     \* hours by which the clock of Spec advances at a time
MaxClock == 25      \* the last clock reading of Spec
SweepStep == 12     \* hours by which the clock of SpecAdverse advances at a time
MaxSweepClock == 36 \* the last clock reading of SpecAdverse
MaxTextLen == 5     \* length of the texts handed to chunk_text by SpecChunk
MaxChunkSize == 3   \* chunk sizes handed to chunk_text by SpecChunk: 1..MaxChunkSize

(***************************************************************************)
(* Python floats.  A double x is held as the pair (h, e) of integers with  *)
(*      x * 100 * 2^58  =  h * 2^58 + e                                    *)
(* so h is the value in hundredths and e the binary representation error.  *)
(* Every double met here is a multiple of 2^-58 below 2, which makes both  *)
(* integers, and |e| stays far below 2^57, so pairs compare               *)
(* lexicographically.  RoundToDouble is IEEE-754 round-to-nearest-even to  *)
(* 53 significant bits.                                                    *)
(***************************************************************************)
Float(h, e) == [h |-> h, e |-> e]

FZero == Float(0, 0)

FLe(a, b) == a.h < b.h \/ (a.h = b.h /\ a.e <= b.e)

FGe(a, b) == FLe(b, a)

FMin(a, b) == IF FLe(a, b) THEN a ELSE b

RECURSIVE Pow2Mod(_, _)
Pow2Mod(q, m) == IF q = 0 THEN 1 % m ELSE (2 * Pow2Mod(q - 1, m)) % m

Pow2Mod200 == [q \in 52..58 |-> Pow2Mod(q, 200)]

\* The exponent q of the unit in the last place, 2^-q, of the binade holding a.
UlpExp(a) ==
    IF FGe(a, Float(100, 0)) THEN 52
    ELSE IF FGe(a, Float(50, 0)) THEN 53
    ELSE IF FGe(a, Float(25, 0)) THEN 54
    ELSE IF a.h >= 13 THEN 55
    ELSE IF a.h >= 7 THEN 56
    ELSE IF a.h >= 4 THEN 57
    ELSE 58

RoundToDouble(a) ==
    IF a = FZero THEN FZero
    ELSE
        LET q == UlpExp(a)
            c == 2 ^ (58 - q)
            U == 100 * c                        \* one ulp, in units of 2^-58 / 100
            r == (a.h * Pow2Mod200[q]) % 200    \* (h * 2^q) mod 200
            t == c * (r % 100) + a.e
            rem == t % U
            quoOdd == (r >= 100) # ((((t - rem) \div U) % 2) = 1)
            d == IF 2 * rem < U THEN 0 - rem
                 ELSE IF 2 * rem > U THEN U - rem
                 ELSE IF quoOdd THEN U - rem ELSE 0 - rem
        IN  Float(a.h, a.e + d)

\* The double a decimal literal h/100 of the source denotes.
Literals == [h \in 0..100 |-> RoundToDouble(Float(h, 0))]

Lit(h) == Literals[h]

FAdd(a, b) == RoundToDouble(Float(a.h + b.h, a.e + b.e))

\* int * float
FMulInt(n, a) == RoundToDouble(Float(n * a.h, n * a.e))

\* round(x, 2), in hundredths: e is far below half a hundredth.
Round2(a) == a.h

(***************************************************************************)
(* Python dicts and lists.                                                 *)
(***************************************************************************)
EmptyDict == [k \in {} |-> ""]

\* d.get(k): the value, or None
Get(d, k) == IF k \in DOMAIN d THEN d[k] ELSE None

\* the truth value Python gives a string or None
Truthy(v) == v # None /\ v # ""

\* an update in which the keys already held keep their values
DictUpdate_keeping_old(d, u) == [k \in (DOMAIN d) \cup (DOMAIN u) |-> IF k \in DOMAIN d THEN d[k] ELSE u[k]]

\* d.update(u)
DictUpdate(d, u) == [k \in (DOMAIN d) \cup (DOMAIN u) |-> IF k \in DOMAIN u THEN u[k] ELSE d[k]]

\* set(list)
ToSet(list) == {list[i] : i \in 1..Len(list)}

\* x in list
In(x, list) == \E i \in 1..Len(list) : list[i] = x

(***************************************************************************)
(* lead/detector.py: the lead scorer.                                      *)
(***************************************************************************)
\* the nine tags, in the order detect_buying_signals appends them
SignalOrder ==
    << "budget_mentioned", "specific_requirements", "timeline_mentioned",
       "location_preference", "luxury_feature_interest", "comparison_intent",
       "purchase_process_inquiry", "viewing_interest", "current_situation_shared" >>

KnownSignals == {SignalOrder[i] : i \in 1..Len(SignalOrder)}

\* the weights of signal_weights, in hundredths as the source writes them
signal_weights ==
    [s \in KnownSignals |->
        CASE s = "budget_mentioned" -> 15
          [] s = "specific_requirements" -> 12
          [] s = "timeline_mentioned" -> 15
          [] s = "location_preference" -> 8
          [] s = "luxury_feature_interest" -> 8
          [] s = "comparison_intent" -> 10
          [] s = "purchase_process_inquiry" -> 15
          [] s = "viewing_interest" -> 20
          [] s = "current_situation_shared" -> 10]

\* an unrecognized tag weighing nothing
WeightOf_no_default(signal) == IF signal \in KnownSignals THEN Lit(signal_weights[signal]) ELSE FZero

\* signal_weights.get(signal, 0.05)
WeightOf(signal) == IF signal \in KnownSignals THEN Lit(signal_weights[signal]) ELSE Lit(5)

\* builtin sum() up to Python 3.11: left to right, each addition rounded
RECURSIVE SumNaive(_)
SumNaive(xs) ==
    IF xs = <<>> THEN FZero
    ELSE FAdd(SumNaive(SubSeq(xs, 1, Len(xs) - 1)), xs[Len(xs)])

\* builtin sum() from Python 3.12 on: Neumaier's compensated summation. The
\* compensation term collects the rounding errors exactly (they are multiples
\* of 2^-58 far below 2^-5), so the result is the exact sum rounded once.
RECURSIVE SumExact(_)
SumExact(xs) ==
    IF xs = <<>> THEN FZero
    ELSE LET r == SumExact(SubSeq(xs, 1, Len(xs) - 1))
         IN  Float(r.h + xs[Len(xs)].h, r.e + xs[Len(xs)].e)

SumCompensated(xs) == RoundToDouble(SumExact(xs))

Builds == {"naive_sum", "compensated_sum"}

PySum(xs) == IF build = "compensated_sum" THEN SumCompensated(xs) ELSE SumNaive(xs)

\* a bonus for the first message only
engagement_bonus_first_message_only(conversation_length) ==
    IF conversation_length > 1 THEN FZero ELSE FMulInt(conversation_length, Lit(2))

\* the bonus without its cap
engagement_bonus_uncapped(conversation_length) == FMulInt(conversation_length, Lit(2))

\* min(conversation_length * 0.02, 0.15)
engagement_bonus(conversation_length) == FMin(FMulInt(conversation_length, Lit(2)), Lit(15))

\* the score without the final min(..., 1.0)
calculate_intent_score_uncapped(signals, conversation_length) ==
    LET base_score == PySum([i \in 1..Len(signals) |-> WeightOf(signals[i])])
    IN  FAdd(base_score, engagement_bonus(conversation_length))

calculate_intent_score(signals, conversation_length) ==
    LET base_score == PySum([i \in 1..Len(signals) |-> WeightOf(signals[i])])
    IN  FMin(FAdd(base_score, engagement_bonus(conversation_length)), Lit(100))

\* Settings.INTENT_*_THRESHOLD defaults, in hundredths
INTENT_MEDIUM_THRESHOLD == 60
INTENT_HIGH_THRESHOLD == 80

classify_intent(intent_score) ==
    IF FGe(intent_score, Lit(INTENT_HIGH_THRESHOLD)) THEN "high"
    ELSE IF FGe(intent_score, Lit(INTENT_MEDIUM_THRESHOLD)) THEN "medium"
    ELSE "low"

\* comparison_intent looked at before specific_requirements
recommend_action_comparison_first(intent_level, signals) ==
    IF intent_level = "high"
    THEN IF In("viewing_interest", signals)
         THEN "schedule_viewing_immediately"
         ELSE "capture_contact_and_schedule_callback"
    ELSE IF intent_level = "medium"
    THEN IF In("comparison_intent", signals) THEN "provide_comparison_capture_preference"
         ELSE IF In("specific_requirements", signals) THEN "show_floorplans_and_qualify"
         ELSE "share_more_details_build_interest"
    ELSE "educate_and_build_interest"

recommend_action(intent_level, signals) ==
    IF intent_level = "high"
    THEN IF In("viewing_interest", signals)
         THEN "schedule_viewing_immediately"
         ELSE "capture_contact_and_schedule_callback"
    ELSE IF intent_level = "medium"
    THEN IF In("specific_requirements", signals) THEN "show_floorplans_and_qualify"
         ELSE IF In("comparison_intent", signals) THEN "provide_comparison_capture_preference"
         ELSE "share_more_details_build_interest"
    ELSE "educate_and_build_interest"

generate_lead_signals_response(signals, intent_score, conversation_history) ==
    LET intent_level == classify_intent(intent_score)
        action == recommend_action(intent_level, signals)
    IN  [ intent |-> intent_level,
          intent_score |-> Round2(intent_score),
          signals_detected |-> signals,
          recommended_action |-> action,
          conversation_depth |-> Len(conversation_history) ]

\* a contact method asked for when either of phone and email is missing
should_request_contact_info_either(lead_info, intent_level, conversation_length) ==
    IF conversation_length < 2 THEN <<FALSE, "">>
    ELSE IF intent_level = "high"
    THEN IF ~Truthy(Get(lead_info, "phone")) \/ ~Truthy(Get(lead_info, "email"))
         THEN <<TRUE, "contact_method">>
         ELSE IF ~Truthy(Get(lead_info, "name")) THEN <<TRUE, "name">>
         ELSE <<FALSE, "">>
    ELSE IF intent_level = "medium" /\ conversation_length >= 3
    THEN IF ~Truthy(Get(lead_info, "email")) THEN <<TRUE, "email_for_brochure">>
         ELSE <<FALSE, "">>
    ELSE <<FALSE, "">>

\* returns the tuple (should_request, what_to_request)
should_request_contact_info(lead_info, intent_level, conversation_length) ==
    IF conversation_length < 2 THEN <<FALSE, "">>
    ELSE IF intent_level = "high"
    THEN IF ~Truthy(Get(lead_info, "phone")) /\ ~Truthy(Get(lead_info, "email"))
         THEN <<TRUE, "contact_method">>
         ELSE IF ~Truthy(Get(lead_info, "name")) THEN <<TRUE, "name">>
         ELSE <<FALSE, "">>
    ELSE IF intent_level = "medium" /\ conversation_length >= 3
    THEN IF ~Truthy(Get(lead_info, "email")) THEN <<TRUE, "email_for_brochure">>
         ELSE <<FALSE, "">>
    ELSE <<FALSE, "">>

(***************************************************************************)
(* Python strings.                                                         *)
(***************************************************************************)
UpperLetters == "ABCDEFGHIJKLMNOPQRSTUVWXYZ"

LowerLetters == "abcdefghijklmnopqrstuvwxyz"

CharAt(s, i) == SubSeq(s, i, i)

\* the position of character c in letters, or 0
IndexIn(c, letters) ==
    IF \E i \in 1..Len(letters) : CharAt(letters, i) = c
    THEN CHOOSE i \in 1..Len(letters) : CharAt(letters, i) = c
    ELSE 0

\* the table sending each character of from to the one at its place in to
CharTable(from, to) ==
    [c \in {CharAt(from, i) : i \in 1..Len(from)} |-> CharAt(to, IndexIn(c, from))]

ToLower == CharTable(UpperLetters, LowerLetters)

ToUpper == CharTable(LowerLetters, UpperLetters)

\* each character of s sent through the table, the others kept
RECURSIVE MapChars(_, _)
MapChars(s, table) ==
    IF Len(s) = 0 THEN ""
    ELSE IF Len(s) = 1 THEN (IF s \in DOMAIN table THEN table[s] ELSE s)
    ELSE LET half == Len(s) \div 2
         IN  MapChars(SubSeq(s, 1, half), table) \o MapChars(SubSeq(s, half + 1, Len(s)), table)

\* str.lower() and str.upper()
Lower(s) == MapChars(s, ToLower)

Upper(s) == MapChars(s, ToUpper)

\* kw in text
Has(text, kw) == \E i \in 1..(Len(text) - Len(kw) + 1) : SubSeq(text, i, i + Len(kw) - 1) = kw

(***************************************************************************)
(* Python's re module, for the patterns of lead/detector.py.  A pattern is *)
(* a tree of tuples; Match gives the offsets at which a match starting at  *)
(* offset pos can end, in the order the backtracking matcher tries them    *)
(* (greedy repetition first, alternatives left to right), so its head is   *)
(* the match re reports.  Offsets count the characters before a position.  *)
(***************************************************************************)
\* a literal string
Str(s) == <<"lit", s>>

\* a character class, as the string of its members
Class(chars) == <<"set", {CharAt(chars, i) : i \in 1..Len(chars)}>>

Cat(parts) == <<"cat", parts>>

Alt(parts) == <<"alt", parts>>

\* r{min,max}, greedy; max = -1 for no upper limit
Rep(r, min, max) == <<"rep", r, min, max>>

Plus(r) == Rep(r, 1, -1)

Star(r) == Rep(r, 0, -1)

Opt(r) == Rep(r, 0, 1)

\* \b
WordBoundary == <<"wb">>

Digits == "0123456789"

\* \s
Whitespace == " \t\n\r\f"

\* \w
WordChars == UpperLetters \o LowerLetters \o Digits \o "_"

IsWordChar(text, i) ==
    i >= 1 /\ i <= Len(text) /\ \E k \in 1..Len(WordChars) : CharAt(WordChars, k) = CharAt(text, i)

RECURSIVE Match(_, _, _), MatchCat(_, _, _, _), MatchEach(_, _, _, _, _), MatchAlt(_, _, _, _),
          MatchRep(_, _, _, _), RepFrom(_, _, _, _, _)

Match(r, text, pos) ==
    CASE r[1] = "lit" ->
            IF pos + Len(r[2]) <= Len(text) /\ SubSeq(text, pos + 1, pos + Len(r[2])) = r[2]
            THEN <<pos + Len(r[2])>> ELSE <<>>
      [] r[1] = "set" ->
            IF pos < Len(text) /\ CharAt(text, pos + 1) \in r[2] THEN <<pos + 1>> ELSE <<>>
      [] r[1] = "wb" ->
            IF IsWordChar(text, pos) # IsWordChar(text, pos + 1) THEN <<pos>> ELSE <<>>
      [] r[1] = "cat" -> MatchCat(r[2], 1, text, pos)
      [] r[1] = "alt" -> MatchAlt(r[2], 1, text, pos)
      [] r[1] = "rep" -> MatchRep(r, text, pos, 0)

\* parts[k..] matched from pos
MatchCat(parts, k, text, pos) ==
    IF k > Len(parts) THEN <<pos>>
    ELSE MatchEach(parts, k, text, Match(parts[k], text, pos), 1)

\* for each end in ends[i..], in order, the ends of parts[k+1..] from there
MatchEach(parts, k, text, ends, i) ==
    IF i > Len(ends) THEN <<>>
    ELSE MatchCat(parts, k + 1, text, ends[i]) \o MatchEach(parts, k, text, ends, i + 1)

MatchAlt(parts, k, text, pos) ==
    IF k > Len(parts) THEN <<>>
    ELSE Match(parts[k], text, pos) \o MatchAlt(parts, k + 1, text, pos)

\* count repetitions of r[2] made so far; one more first, then stopping here
MatchRep(r, text, pos, count) ==
    LET more == IF r[4] < 0 \/ count < r[4]
                THEN RepFrom(r, text, Match(r[2], text, pos), 1, <<pos, count>>)
                ELSE <<>>
        here == IF count >= r[3] THEN <<pos>> ELSE <<>>
    IN  more \o here

\* the repetition continued from each end in ends[i..] (an empty repetition is not repeated)
RepFrom(r, text, ends, i, at) ==
    IF i > Len(ends) THEN <<>>
    ELSE (IF ends[i] > at[1] THEN MatchRep(r, text, ends[i], at[2] + 1) ELSE <<>>)
         \o RepFrom(r, text, ends, i + 1, at)

\* re.search(pattern, text) finds something
Search(r, text) == \E pos \in 0..Len(text) : Match(r, text, pos) # <<>>

\* the span <<start offset, end offset>> of the first match, or <<>>
FirstMatch(r, text) ==
    IF Search(r, text)
    THEN LET pos == CHOOSE p \in 0..Len(text) :
                        Match(r, text, p) # <<>> /\ \A q \in 0..(p - 1) : Match(r, text, q) = <<>>
         IN  <<pos, Head(Match(r, text, pos))>>
    ELSE <<>>

\* any(re.search(pattern, text) for pattern in patterns)
AnySearch(patterns, text) == \E i \in 1..Len(patterns) : Search(patterns[i], text)

\* re.findall(pattern, text)[0] for a pattern prefix(group) with one group:
\* the span of the group in the first match, or <<>>
RECURSIVE FirstGroupFrom(_, _, _, _)
FirstGroupFrom(group, text, ends, i) ==
    IF i > Len(ends) THEN <<>>
    ELSE IF Match(group, text, ends[i]) # <<>> THEN <<ends[i], Head(Match(group, text, ends[i]))>>
    ELSE FirstGroupFrom(group, text, ends, i + 1)

FirstGroup(prefix, group, text) ==
    LET whole == FirstMatch(Cat(<<prefix, group>>), text)
    IN  IF whole = <<>> THEN <<>> ELSE FirstGroupFrom(group, text, Match(prefix, text, whole[1]), 1)

\* the literal keywords of a pattern list
Keywords(words) == [i \in 1..Len(words) |-> Str(words[i])]

(***************************************************************************)
(* lead/detector.py: the nine signal detectors and contact extraction.     *)
(***************************************************************************)
Digit == Class(Digits)

DigitsOrComma == Class(Digits \o ",")

Space == Class(Whitespace)

budget_keywords ==
    << Cat(<<Str("$"), Plus(DigitsOrComma)>>),
       Cat(<<Str("aed"), Opt(Space), Plus(DigitsOrComma)>>) >>
    \o Keywords(<<"budget", "price", "cost", "afford", "million", "thousand", "payment",
                  "financing">>)

\* no budget pattern ever found
detect_budget_mention_never(text) == FALSE

detect_budget_mention(text) == AnySearch(budget_keywords, text)

requirement_keywords ==
    << Cat(<<Plus(Digit), Star(Space), Str("bedroom")>>),
       Cat(<<Plus(Digit), Str("br")>>) >>
    \o Keywords(<<"pool", "garden", "parking", "sqm", "square", "layout", "master bedroom",
                  "ensuite", "maid room", "storage", "terrace", "balcony">>)

detect_specific_requirements(text) == AnySearch(requirement_keywords, text)

timeline_keywords ==
    Keywords(<<"soon", "urgently", "asap", "immediately", "next month">>)
    \o << Cat(<<Str("by"), Plus(Space), Plus(Class(WordChars))>>) >>
    \o Keywords(<<"looking to move", "need by", "within", "this year", "next year">>)
    \o << Cat(<<Plus(Digit), Star(Space), Str("month"), Opt(Str("s"))>>) >>

detect_timeline(text) == AnySearch(timeline_keywords, text)

location_keywords ==
    Keywords(<<"dubai", "festival city", "al badia", "area", "location", "neighborhood",
               "near", "close to", "proximity">>)

detect_location_preference(text) == AnySearch(location_keywords, text)

luxury_keywords ==
    Keywords(<<"luxury", "premium", "high-end", "upscale", "exclusive", "pool", "golf",
               "spa", "gym", "clubhouse">>)

detect_luxury_interest(text) == AnySearch(luxury_keywords, text)

comparison_keywords ==
    Keywords(<<"compare", "versus", "vs", "difference", "better", "which one", "or",
               "between">>)

detect_comparison_intent(text) == AnySearch(comparison_keywords, text)

purchase_keywords ==
    Keywords(<<"how to buy", "purchase", "documentation", "paperwork", "mortgage", "loan",
               "financing", "down payment", "process", "steps", "requirements">>)

detect_purchase_questions(text) == AnySearch(purchase_keywords, text)

viewing_keywords ==
    Keywords(<<"visit", "view", "see", "tour", "show", "schedule", "appointment",
               "when can", "available to see">>)

detect_viewing_interest(text) == AnySearch(viewing_keywords, text)

situation_keywords ==
    Keywords(<<"currently", "renting", "selling", "own", "living in", "lease", "tenant",
               "landlord", "moving from">>)

detect_current_situation(text) == AnySearch(situation_keywords, text)

\* the detectors in the order detect_buying_signals consults them
Detects(text) ==
    << detect_budget_mention(text), detect_specific_requirements(text), detect_timeline(text),
       detect_location_preference(text), detect_luxury_interest(text),
       detect_comparison_intent(text), detect_purchase_questions(text),
       detect_viewing_interest(text), detect_current_situation(text) >>

\* the detected signals, each at most once, in the fixed order
detect_buying_signals(message) ==
    LET message_lower == Lower(message)
        hit == Detects(message_lower)
    IN  SelectSeq(SignalOrder, LAMBDA s : \E i \in 1..Len(SignalOrder) : SignalOrder[i] = s /\ hit[i])

\* [\s-]?
Sep == Opt(Class(Whitespace \o "-"))

email_pattern ==
    Cat(<< WordBoundary, Plus(Class(UpperLetters \o LowerLetters \o Digits \o "._%+-")), Str("@"),
           Plus(Class(UpperLetters \o LowerLetters \o Digits \o ".-")), Str("."),
           Rep(Class(UpperLetters \o "|" \o LowerLetters), 2, -1), WordBoundary >>)

phone_patterns ==
    << Cat(<<Str("+971"), Sep, Rep(Digit, 1, 2), Sep, Rep(Digit, 3, 3), Sep, Rep(Digit, 4, 4)>>),
       Cat(<<Str("+"), Rep(Digit, 1, 3), Sep, Rep(Digit, 3, 4), Sep, Rep(Digit, 3, 4), Sep,
             Rep(Digit, 3, 4)>>),
       Cat(<<Rep(Digit, 3, 3), Sep, Rep(Digit, 3, 3), Sep, Rep(Digit, 4, 4)>>) >>

\* [A-Z][a-z]+ under re.IGNORECASE
Word == Cat(<<Class(LowerLetters), Plus(Class(LowerLetters))>>)

\* each name pattern as <<what precedes the group, the group>>, matched ignoring case
name_patterns ==
    << << Cat(<<Alt(<<Str("i'm"), Str("i am"), Str("my name is"), Str("this is")>>), Plus(Space)>>),
          Cat(<<Word, Star(Cat(<<Plus(Space), Word>>))>>) >>,
       << Cat(<<Alt(<<Str("call me"), Str("contact")>>), Plus(Space)>>), Word >> >>

\* the text of a span of message, or None for no match
Found(message, span) == IF span = <<>> THEN None ELSE SubSeq(message, span[1] + 1, span[2])

\* the first pattern of the list that matches decides
RECURSIVE FirstPhone(_, _)
FirstPhone(message, i) ==
    IF i > Len(phone_patterns) THEN None
    ELSE IF Search(phone_patterns[i], message) THEN Found(message, FirstMatch(phone_patterns[i], message))
    ELSE FirstPhone(message, i + 1)

RECURSIVE FirstName(_, _)
FirstName(message, i) ==
    IF i > Len(name_patterns) THEN None
    ELSE LET span == FirstGroup(name_patterns[i][1], name_patterns[i][2], Lower(message))
         IN  IF span # <<>> THEN Found(message, span) ELSE FirstName(message, i + 1)

\* a dict holding only the keys that were found
extract_contact_info(message) ==
    LET email == Found(message, FirstMatch(email_pattern, message))
        phone == FirstPhone(message, 1)
        name  == FirstName(message, 1)
        found == (IF email # None THEN {<<"email", email>>} ELSE {})
                 \cup (IF phone # None THEN {<<"phone", phone>>} ELSE {})
                 \cup (IF name # None THEN {<<"name", name>>} ELSE {})
    IN  [k \in {p[1] : p \in found} |-> (CHOOSE p \in found : p[1] = k)[2]]

(***************************************************************************)
(* retrieval/rag.py: citations, property identification, image ranking.    *)
(* A page is a string of digits, "unknown" (retrieve_context's default     *)
(* for a chunk without page metadata) or None (an image without a page     *)
(* number).                                                                *)
(***************************************************************************)
\* the truth value Python gives a page: None and 0 are false
PageTruthy(page) == page # None /\ page # "0"

extract_villa_type_from_content(content) ==
    LET content_upper == Upper(content)
    IN  IF Has(content_upper, "3BR") \/ Has(content_upper, "3 BEDROOM")
        THEN IF Has(content_upper, "TYPE B") \/ Has(content_upper, "POOL")
             THEN "3BR MIA Type B with Pool"
             ELSE "3BR MIA Type A"
        ELSE IF Has(content_upper, "4BR") \/ Has(content_upper, "4 BEDROOM")
        THEN IF Has(content_upper, "TYPE B") \/ Has(content_upper, "POOL")
             THEN "4BR SHADEA Type B with Pool"
             ELSE "4BR SHADEA Type A"
        ELSE IF Has(content_upper, "5BR") \/ Has(content_upper, "5 BEDROOM")
        THEN IF Has(content_upper, "TYPE B")
             THEN "5BR MODEA Type B"
             ELSE "5BR MODEA Type A"
        ELSE "General information"

\* the loop of extract_citations over the first k results: <<citations, seen_pages>>
RECURSIVE CitationLoop(_, _)
CitationLoop(pdf_results, k) ==
    IF k = 0 THEN <<<<>>, {}>>
    ELSE LET before == CitationLoop(pdf_results, k - 1)
             res == pdf_results[k]
             page == res.page
         IN  IF PageTruthy(page) /\ page \notin before[2]
             THEN << Append(before[1],
                            [ source |-> "floorplans_pdf",
                              page |-> page,
                              villa_type |-> extract_villa_type_from_content(res.content) ]),
                     before[2] \cup {page} >>
             ELSE before

\* the loop without the seen_pages test
RECURSIVE CitationLoopNoDedup(_, _)
CitationLoopNoDedup(pdf_results, k) ==
    IF k = 0 THEN <<<<>>, {}>>
    ELSE LET before == CitationLoopNoDedup(pdf_results, k - 1)
             res == pdf_results[k]
             page == res.page
         IN  IF PageTruthy(page)
             THEN << Append(before[1],
                            [ source |-> "floorplans_pdf",
                              page |-> page,
                              villa_type |-> extract_villa_type_from_content(res.content) ]),
                     before[2] \cup {page} >>
             ELSE before

extract_citations_no_dedup(pdf_results) == CitationLoopNoDedup(pdf_results, Len(pdf_results))[1]

extract_citations(pdf_results) == CitationLoop(pdf_results, Len(pdf_results))[1]

\* villa_mappings, in the insertion order of the dict
villa_mappings ==
    << <<"3BR-MIA-TYPE-A", <<"3BR", "MIA", "TYPE A">> >>,
       <<"3BR-MIA-TYPE-B", <<"3BR", "MIA", "TYPE B", "POOL">> >>,
       <<"4BR-SHADEA-TYPE-A", <<"4BR", "SHADEA", "TYPE A">> >>,
       <<"4BR-SHADEA-TYPE-B", <<"4BR", "SHADEA", "TYPE B", "POOL">> >>,
       <<"5BR-MODEA-TYPE-A", <<"5BR", "MODEA", "TYPE A">> >>,
       <<"5BR-MODEA-TYPE-B", <<"5BR", "MODEA", "TYPE B">> >> >>

\* the loop with one keyword sufficing
MatchedVillas_any_keyword(response_text) ==
    LET response_upper == Upper(response_text)
        matches(keywords) == Cardinality({i \in 1..Len(keywords) : Has(response_upper, keywords[i])})
        hit(entry) == matches(entry[2]) >= 1
        picked == SelectSeq(villa_mappings, hit)
    IN  [i \in 1..Len(picked) |-> picked[i][1]]

\* the matching villa ids, in the order of the loop
MatchedVillas(response_text) ==
    LET response_upper == Upper(response_text)
        matches(keywords) == Cardinality({i \in 1..Len(keywords) : Has(response_upper, keywords[i])})
        hit(entry) == matches(entry[2]) >= 2
        picked == SelectSeq(villa_mappings, hit)
    IN  [i \in 1..Len(picked) |-> picked[i][1]]

\* list(set(properties)): the ids are distinct already, and the order in which
\* a set of strings is listed varies from one interpreter run to the next
\* (string hashing is randomized), so every order can come out
identify_mentioned_properties(response_text) ==
    LET properties == MatchedVillas(response_text)
    IN  {p \in [1..Len(properties) -> ToSet(properties)] : ToSet(p) = ToSet(properties)}

visual_keywords ==
    << "floor plan", "floorplan", "layout", "show", "see", "look",
       "design", "image", "picture", "visual", "configuration",
       "how does", "what does", "ground floor", "first floor" >>

\* images wanted whatever the query
should_include_images_always(query) == TRUE

should_include_images(query) ==
    LET query_lower == Lower(query)
    IN  \E i \in 1..Len(visual_keywords) : Has(query_lower, visual_keywords[i])

\* the set of truthy pages of the text hits
MentionedPages(pdf_results) ==
    {pdf_results[i].page : i \in {j \in 1..Len(pdf_results) : PageTruthy(pdf_results[j].page)}}

\* the score of one image without the page bonus
ImageScoreNoPage(img, query, pdf_results) ==
    LET description == Lower(img.description)
        query_lower == Lower(query)
        bedrooms(words, br) ==
            IF (Has(query_lower, words) \/ Has(query_lower, br)) /\ Has(description, br)
            THEN 5 ELSE 0
    IN  bedrooms("3 bedroom", "3br") + bedrooms("4 bedroom", "4br") + bedrooms("5 bedroom", "5br")
        + (IF Has(query_lower, "pool") /\ Has(description, "pool") THEN 3 ELSE 0)

\* the score rank_images_by_relevance gives one image
ImageScore(img, query, pdf_results) ==
    (IF img.page \in MentionedPages(pdf_results) THEN 10 ELSE 0)
    + ImageScoreNoPage(img, query, pdf_results)

\* a sort that puts an element ahead of those with its own score
RECURSIVE SortByScoreDesc_unstable(_)
SortByScoreDesc_unstable(scored) ==
    IF scored = <<>> THEN <<>>
    ELSE LET rest == SortByScoreDesc_unstable(SubSeq(scored, 1, Len(scored) - 1))
             x == scored[Len(scored)]
             k == Cardinality({i \in 1..Len(rest) : rest[i][1] > x[1]})
         IN  SubSeq(rest, 1, k) \o <<x>> \o SubSeq(rest, k + 1, Len(rest))

\* list.sort(key=score, reverse=True): stable, highest score first
RECURSIVE SortByScoreDesc(_)
SortByScoreDesc(scored) ==
    IF scored = <<>> THEN <<>>
    ELSE LET rest == SortByScoreDesc(SubSeq(scored, 1, Len(scored) - 1))
             x == scored[Len(scored)]
             \* x goes behind every element whose score is at least its own
             k == Cardinality({i \in 1..Len(rest) : rest[i][1] >= x[1]})
         IN  SubSeq(rest, 1, k) \o <<x>> \o SubSeq(rest, k + 1, Len(rest))

\* the ranking with the sort that is not stable
rank_images_by_relevance_unstable(images, query, pdf_results) ==
    IF images = <<>> THEN <<>>
    ELSE LET scored_images == [i \in 1..Len(images) |->
                                  <<ImageScore(images[i], query, pdf_results), images[i]>>]
             sorted == SortByScoreDesc_unstable(scored_images)
         IN  [i \in 1..Len(sorted) |-> sorted[i][2]]

rank_images_by_relevance(images, query, pdf_results) ==
    IF images = <<>> THEN <<>>
    ELSE LET scored_images == [i \in 1..Len(images) |->
                                  <<ImageScore(images[i], query, pdf_results), images[i]>>]
             sorted == SortByScoreDesc(scored_images)
         IN  [i \in 1..Len(sorted) |-> sorted[i][2]]

\* the blocks joined last hit first
format_context_for_prompt_reversed(pdf_results) ==
    IF pdf_results = <<>> THEN "No relevant information found in floorplans document."
    ELSE LET part(i) == "[Source: Floorplans PDF, Page " \o pdf_results[i].page \o "]\n"
                        \o pdf_results[i].content \o "\n"
             join[i \in 1..Len(pdf_results)] ==
                 IF i = 1 THEN part(1) ELSE part(i) \o "\n---\n" \o join[i - 1]
         IN  join[Len(pdf_results)]

format_context_for_prompt(pdf_results) ==
    IF pdf_results = <<>> THEN "No relevant information found in floorplans document."
    ELSE LET part(i) == "[Source: Floorplans PDF, Page " \o pdf_results[i].page \o "]\n"
                        \o pdf_results[i].content \o "\n"
             join[i \in 1..Len(pdf_results)] ==
                 IF i = 1 THEN part(1) ELSE join[i - 1] \o "\n---\n" \o part(i)
         IN  join[Len(pdf_results)]

(***************************************************************************)
(* retrieval/vector_store.py.  The index, as one query finds it, is whether *)
(* it can be reached and, for each class of document, the documents        *)
(* nearest to the query, nearest first, each with its distance.  Distances *)
(* and the similarity threshold are in hundredths; 1 - 0.7 is the double   *)
(* just above 0.3, so the doubles nearest to 0.30 and below pass the       *)
(* comparison and those nearest to 0.31 and above fail it.                 *)
(***************************************************************************)
SIMILARITY_THRESHOLD == 70

PdfDoc(content, page) ==
    [page_content |-> content, metadata |-> [source_type |-> "floorplans_pdf", page |-> page]]

ImageDoc(description, page) ==
    [ page_content |-> description,
      metadata |-> [ source_type |-> "floorplan_image",
                     path |-> "data/WebP/AlBadia_Floorplans_A3_Rev11-" \o page \o ".webp",
                     description |-> description,
                     page_number |-> page,
                     filename |-> "AlBadia_Floorplans_A3_Rev11-" \o page \o ".webp" ] ]

Hit(doc, distance) == [doc |-> doc, distance |-> distance]

Index(reachable, pdf_hits, image_hits) ==
    [reachable |-> reachable, floorplans_pdf |-> pdf_hits, floorplan_image |-> image_hits]

\* vectorstore.similarity_search_with_score(query, k=k, filter=filter_dict) of a
\* reachable index: the k nearest documents of the class with their distances
similarity_search_with_score(vectorstore, k, filter_dict) ==
    LET hits == vectorstore[filter_dict.source_type]
    IN  SubSeq(hits, 1, IF Len(hits) < k THEN Len(hits) ELSE k)

\* vectorstore.similarity_search(query, k=k, filter=filter_dict): the same documents, bare
similarity_search(vectorstore, k, filter_dict) ==
    LET results == similarity_search_with_score(vectorstore, k, filter_dict)
    IN  [i \in 1..Len(results) |-> results[i].doc]

\* try: similarity_search ... except Exception: return []
search_vectorstore(vectorstore, query, k, filter_dict) ==
    IF vectorstore.reachable THEN similarity_search(vectorstore, k, filter_dict) ELSE <<>>

\* the search that applies the threshold; retrieve_context imports it and
\* never calls it
search_with_scores(vectorstore, query, k, filter_dict) ==
    IF vectorstore.reachable
    THEN SelectSeq(similarity_search_with_score(vectorstore, k, filter_dict),
                   LAMBDA hit : hit.distance <= 100 - SIMILARITY_THRESHOLD)
    ELSE <<>>

get_pdf_documents(vectorstore, query, k) ==
    search_vectorstore(vectorstore, query, k, [source_type |-> "floorplans_pdf"])

get_image_documents(vectorstore, query, k) ==
    search_vectorstore(vectorstore, query, k, [source_type |-> "floorplan_image"])

\* <<pdf_results, image_results>>, with top_k_pdf = 5 and top_k_images = 3
retrieve_context(vectorstore, query) ==
    LET pdf_docs == get_pdf_documents(vectorstore, query, 5)
        pdf_results == [i \in 1..Len(pdf_docs) |->
                           [ content |-> pdf_docs[i].page_content,
                             source |-> "floorplans_pdf",
                             page |-> IF "page" \in DOMAIN pdf_docs[i].metadata
                                      THEN pdf_docs[i].metadata.page ELSE "unknown" ]]
        image_docs == SelectSeq(get_image_documents(vectorstore, query, 3),
                                LAMBDA doc : Truthy(Get(doc.metadata, "path")))
        image_results == [i \in 1..Len(image_docs) |->
                             [ path |-> image_docs[i].metadata.path,
                               description |-> IF "description" \in DOMAIN image_docs[i].metadata
                                               THEN image_docs[i].metadata.description ELSE "",
                               page |-> Get(image_docs[i].metadata, "page_number"),
                               filename |-> IF "filename" \in DOMAIN image_docs[i].metadata
                                            THEN image_docs[i].metadata.filename ELSE "",
                               relevance |-> "floorplan" ]]
    IN  <<pdf_results, image_results>>

(***************************************************************************)
(* utils/session.py: the in-memory session store.  The store is a dict     *)
(* from session id to session; each operation is given the store and the   *)
(* clock reading t (in hours) and yields the store it leaves behind.       *)
(***************************************************************************)
SESSION_EXPIRY_HOURS == 24

NewSession(session_id, t) ==
    [ session_id |-> session_id,
      created_at |-> t,
      updated_at |-> t,
      messages |-> <<>>,
      properties_viewed |-> <<>>,
      lead_info |-> EmptyDict,
      lead_status |-> "new",
      buying_signals |-> <<>> ]

\* a new session whether or not the store holds the id
get_session_recreating(store, session_id, t) ==
    (session_id :> NewSession(session_id, t)) @@ store

\* the store after get_session(session_id); the session returned is store[session_id]
get_session(store, session_id, t) ==
    IF session_id \notin DOMAIN store
    THEN (session_id :> NewSession(session_id, t)) @@ store
    ELSE [store EXCEPT ![session_id].updated_at = t]

\* the message put at the head of the log
add_message_prepending(store, session_id, role, content, t) ==
    LET got == get_session(store, session_id, t)
    IN  [got EXCEPT ![session_id].messages =
                        <<[role |-> role, content |-> content, timestamp |-> t]>> \o @,
                    ![session_id].updated_at = t]

add_message(store, session_id, role, content, t) ==
    LET got == get_session(store, session_id, t)
    IN  [got EXCEPT ![session_id].messages =
                        Append(@, [role |-> role, content |-> content, timestamp |-> t]),
                    ![session_id].updated_at = t]

\* the signal stored in place of the list
add_buying_signal_overwriting(store, session_id, signal, t) ==
    LET got == get_session(store, session_id, t)
    IN  [got EXCEPT ![session_id].buying_signals = <<signal>>]

add_buying_signal(store, session_id, signal, t) ==
    LET got == get_session(store, session_id, t)
    IN  IF ~In(signal, got[session_id].buying_signals)
        THEN [got EXCEPT ![session_id].buying_signals = Append(@, signal)]
        ELSE got

add_property_viewed(store, session_id, property_id, t) ==
    LET got == get_session(store, session_id, t)
    IN  IF ~In(property_id, got[session_id].properties_viewed)
        THEN [got EXCEPT ![session_id].properties_viewed = Append(@, property_id)]
        ELSE got

\* update_lead_status(session_id, status); nothing in the service calls it
update_lead_status(store, session_id, status, t) ==
    LET got == get_session(store, session_id, t)
    IN  [got EXCEPT ![session_id].lead_status = status]

\* the log without its last message
get_conversation_history_excluding_last(store, session_id, t) ==
    LET messages == get_session(store, session_id, t)[session_id].messages
    IN  SubSeq(messages, 1, Len(messages) - 1)

\* the list returned (last_n is never passed); the call touches updated_at like get_session
get_conversation_history(store, session_id, t) == get_session(store, session_id, t)[session_id].messages

\* the age of a session taken from its creation
cleanup_expired_sessions_by_creation(store, t) ==
    LET expiry_time == t - SESSION_EXPIRY_HOURS
        expired_sessions == {sid \in DOMAIN store : store[sid].created_at < expiry_time}
    IN  [ sessions |-> [sid \in DOMAIN store \ expired_sessions |-> store[sid]],
          count |-> Cardinality(expired_sessions) ]

\* the store after the sweep and the number of sessions removed
cleanup_expired_sessions(store, t) ==
    LET expiry_time == t - SESSION_EXPIRY_HOURS
        expired_sessions == {sid \in DOMAIN store : store[sid].updated_at < expiry_time}
    IN  [ sessions |-> [sid \in DOMAIN store \ expired_sessions |-> store[sid]],
          count |-> Cardinality(expired_sessions) ]

(***************************************************************************)
(* services/llm.py.  The provider's answer to one completion request is an *)
(* input: either a text or an error.                                       *)
(***************************************************************************)
Generated(text) == [ok |-> TRUE, text |-> text]

ProviderError == [ok |-> FALSE, text |-> ""]

FallbackReply ==
    "I apologize, but I'm having trouble processing your request right now. Please try again or contact our sales team for immediate assistance."

\* an empty reply in place of the fixed one
generate_response_empty_on_error(completion) == IF completion.ok THEN completion.text ELSE ""

\* try ... except Exception: return the fixed reply
generate_response(completion) == IF completion.ok THEN completion.text ELSE FallbackReply

generate_follow_up_prompt(intent_level, signals, lead_info, recommended_action) ==
    IF intent_level = "high" /\ In("viewing_interest", signals)
    THEN IF ~Truthy(Get(lead_info, "phone"))
         THEN "I'd be happy to arrange a viewing for you. Could you share your phone number so our agent can coordinate the best time?"
         ELSE "I can arrange a site visit for you. What days this week work best for your schedule?"
    ELSE IF intent_level = "high"
    THEN "These villas tend to move quickly. Would you like to schedule a viewing or speak with one of our property consultants?"
    ELSE IF intent_level = "medium" /\ In("specific_requirements", signals)
    THEN IF ~Truthy(Get(lead_info, "email"))
         THEN "I can send you detailed floor plans and specifications via email. What's the best email address to reach you?"
         ELSE "Would you like me to send you detailed floor plans and a comparison of the villa types that match your requirements?"
    ELSE IF intent_level = "medium" /\ In("comparison_intent", signals)
    THEN "I can create a detailed comparison for you. Which specific features are most important for your decision?"
    ELSE "What aspects of the villas would you like to know more about? I'm here to help with any questions."

(***************************************************************************)
(* The traffic of Spec: the requests clients send, what the store finds    *)
(* and what the provider answers.  What the pure functions make of these   *)
(* texts is computed once and looked up in the turns.                      *)
(***************************************************************************)
ViewingMessage == "What is the price of a 4 bedroom villa in Dubai? Can I visit soon?"

IntroMessage == "I am Sara Khan, currently renting, call me on +971 50 123 4567"

ScenarioMessage ==
    "I'm looking for a 4 bedroom villa with a pool, budget around 2 million, need to move in within 2 months"

ContactMessage == "Call me Omar, omar@mail.com"

Messages == {ViewingMessage, IntroMessage, ScenarioMessage, ContactMessage}

\* a JSON value that is no string, held like None as a marked string
JsonNumber == "<number 42>"

IsStr(v) == v \notin {None, JsonNumber}

\* one client converses, another introduces herself, and one request is empty
Requests ==
    {[message |-> m, session_id |-> "s1"] : m \in {ViewingMessage, IntroMessage}}
    \cup {[message |-> IntroMessage, session_id |-> "s2"], [message |-> "", session_id |-> "s1"]}

PropertyReply == Generated("The MIA Type A villa is on page 4.")

PlainReply == Generated("Our sales team will confirm the price.")

Completions == {PropertyReply, ProviderError}

NoDocs == Index(TRUE, <<>>, <<>>)

SomeDocs ==
    Index(TRUE,
          << Hit(PdfDoc("4 bedroom SHADEA Type B with private pool", "7"), 18),
             Hit(PdfDoc("3BR MIA Type A ground floor", "4"), 27) >>,
          << Hit(ImageDoc("3BR MIA Type A floorplan - Ground and first floor layout without pool", "4"), 21),
             Hit(ImageDoc("4BR SHADEA Type B floorplan - Ground and first floor layout with swimming pool with pool", "7"), 30) >>)

\* the same index while it cannot be reached
Unreachable == [SomeDocs EXCEPT !.reachable = FALSE]

\* an index whose nearest documents are partly farther than the threshold
\* allows, and which holds more images than one search returns
FarDocs ==
    Index(TRUE,
          << Hit(PdfDoc("4 bedroom SHADEA Type B with private pool", "7"), 24),
             Hit(PdfDoc("Al Badia Villas community overview", "2"), 31),
             Hit(PdfDoc("5BR MODEA Type A first floor", "9"), 58) >>,
          << Hit(ImageDoc("3BR MIA Type A floorplan - Ground and first floor layout without pool", "4"), 29),
             Hit(ImageDoc("5BR MODEA Type A floorplan - Ground and first floor layout", "9"), 44),
             Hit(ImageDoc("4BR SHADEA Type B floorplan - Ground and first floor layout with swimming pool with pool", "7"), 47),
             Hit(ImageDoc("3BR MIA Type B floorplan - Ground and first floor layout with swimming pool with pool", "5"), 66) >>)

SearchOutcomes == {NoDocs, SomeDocs}

Stores == SearchOutcomes \cup {Unreachable, FarDocs}

ReplyTexts == {PropertyReply.text, PlainReply.text, FallbackReply}

SignalsOf == [m \in Messages |-> detect_buying_signals(m)]

ContactOf == [m \in Messages |-> extract_contact_info(m)]

WantsImages == [m \in Messages |-> should_include_images(m)]

MentionedIn == [r \in ReplyTexts |-> identify_mentioned_properties(r)]

RetrievedFrom == [v \in Stores |-> retrieve_context(v, "")]

ContextOf == [v \in Stores |-> format_context_for_prompt(RetrievedFrom[v][1])]

CitationsOf == [v \in Stores |-> extract_citations(RetrievedFrom[v][1])]

RankedFor ==
    [q \in Messages \X Stores |->
        rank_images_by_relevance(RetrievedFrom[q[2]][2], q[1], RetrievedFrom[q[2]][1])]

\* table[key] where the table has the key, and the value itself elsewhere
Known(table, key, value) == IF key \in DOMAIN table THEN table[key] ELSE value

(***************************************************************************)
(* services/chat.py: one turn.                                             *)
(***************************************************************************)
\* body(value), with the value computed once however often the body reads it
Let(value, body(_)) == CHOOSE r \in {body(v) : v \in {value}} : TRUE

\* for signal in buying_signals: add_buying_signal(session_id, signal), from the i-th on
RECURSIVE AddSignals(_, _, _, _, _)
AddSignals(store, session_id, buying_signals, i, t) ==
    IF i > Len(buying_signals) THEN store
    ELSE Let(add_buying_signal(store, session_id, buying_signals[i], t),
             LAMBDA added : AddSignals(added, session_id, buying_signals, i + 1, t))

\* for prop in mentioned_properties: add_property_viewed(session_id, prop), from the i-th on
RECURSIVE AddProperties(_, _, _, _, _)
AddProperties(store, session_id, mentioned_properties, i, t) ==
    IF i > Len(mentioned_properties) THEN store
    ELSE Let(add_property_viewed(store, session_id, mentioned_properties[i], t),
             LAMBDA added : AddProperties(added, session_id, mentioned_properties, i + 1, t))

\* the store once the user message is logged and the contact details of the
\* message are merged into lead_info
UserLogged(store, message, session_id, t) ==
    Let(get_session(store, session_id, t), LAMBDA got :
    Let(add_message(got, session_id, "user", message, t), LAMBDA with_user :
    Let(Known(ContactOf, message, extract_contact_info(message)), LAMBDA new_contact_info :
        IF new_contact_info # EmptyDict
        THEN [with_user EXCEPT ![session_id].lead_info = DictUpdate(@, new_contact_info)]
        ELSE with_user)))

\* the store once, after that, the signals of the message are recorded
UserSide(store, message, session_id, t) ==
    Let(UserLogged(store, message, session_id, t), LAMBDA with_contact :
    Let(Known(SignalsOf, message, detect_buying_signals(message)), LAMBDA buying_signals :
        AddSignals(with_contact, session_id, buying_signals, 1, t)))

\* The turns process_chat_message can make of one request: the store it leaves,
\* what it retrieved, the arguments of its generate_response call and the
\* response it returns, one for each order in which the set of mentioned
\* properties can be listed.  vectorstore is what the store finds
\* for the message, completion what the provider answers.
process_chat_message(store, message, session_id, context, vectorstore, completion, t) ==
    Let(UserSide(store, message, session_id, t), LAMBDA with_signals :
    Let(get_conversation_history(with_signals, session_id, t), LAMBDA conversation_history :
    Let(with_signals[session_id].buying_signals, LAMBDA all_signals :
    Let(calculate_intent_score(all_signals, Len(conversation_history)), LAMBDA intent_score :
    Let(generate_lead_signals_response(all_signals, intent_score, conversation_history),
        LAMBDA lead_signals :
    Let(Known(RetrievedFrom, vectorstore, retrieve_context(vectorstore, message)), LAMBDA retrieved :
    Let(generate_response(completion), LAMBDA response_text :
    Let(add_message(with_signals, session_id, "assistant", response_text, t), LAMBDA with_reply :
        LET pdf_results == retrieved[1]
            image_results == retrieved[2]
            formatted_context == Known(ContextOf, vectorstore, format_context_for_prompt(pdf_results))
            citations == Known(CitationsOf, vectorstore, extract_citations(pdf_results))
            lead_info == with_reply[session_id].lead_info
            follow_up == generate_follow_up_prompt(lead_signals.intent, all_signals, lead_info,
                                                   lead_signals.recommended_action)
        IN  { LET with_properties == AddProperties(with_reply, session_id, mentioned_properties, 1, t)
                  include_images == Known(WantsImages, message, should_include_images(message))
                                    \/ Len(mentioned_properties) > 0
                  ranked_images == Known(RankedFor, <<message, vectorstore>>,
                                         rank_images_by_relevance(image_results, message, pdf_results))
                  relevant_images == IF include_images /\ image_results # <<>>
                                     THEN SubSeq(ranked_images, 1, IF Len(ranked_images) < 3
                                                                   THEN Len(ranked_images) ELSE 3)
                                     ELSE <<>>
              IN  [ sessions |-> with_properties,
                    retrieved |-> retrieved,
                    generation |-> [ query |-> message,
                                     context |-> formatted_context,
                                     conversation_history |->
                                         SubSeq(conversation_history, 1, Len(conversation_history) - 1),
                                     lead_info |-> with_signals[session_id].lead_info,
                                     buying_signals |-> all_signals ],
                    response |-> [ response |-> response_text,
                                   properties_mentioned |-> mentioned_properties,
                                   citations |-> citations,
                                   images |-> relevant_images,
                                   lead_signals |-> lead_signals,
                                   follow_up_prompt |-> follow_up ] ]
              : mentioned_properties \in Known(MentionedIn, response_text,
                                               identify_mentioned_properties(response_text)) }
    ))))))))

\* The store an exception leaves behind that surfaces in the call named by
\* fault: nothing is undone.
Interrupted(store, message, session_id, t, fault) ==
    IF fault = "detect_buying_signals"
    THEN UserLogged(store, message, session_id, t)
    ELSE UserSide(store, message, session_id, t)

\* the check of the session id left out
validate_chat_request_any_session(data) ==
    IF ~Truthy(data.message) THEN <<FALSE, "Message is required">>
    ELSE IF ~IsStr(data.message) THEN <<FALSE, "Message must be a string">>
    ELSE IF \A i \in 1..Len(data.message) : CharAt(data.message, i) \in Class(Whitespace)[2]
    THEN <<FALSE, "Message cannot be empty">>
    ELSE <<TRUE, "">>

\* <<is_valid, error_message>>; a missing field is None
validate_chat_request(data) ==
    IF ~Truthy(data.message) THEN <<FALSE, "Message is required">>
    ELSE IF ~IsStr(data.message) THEN <<FALSE, "Message must be a string">>
    ELSE IF \A i \in 1..Len(data.message) : CharAt(data.message, i) \in Class(Whitespace)[2]
    THEN <<FALSE, "Message cannot be empty">>
    ELSE IF ~Truthy(data.session_id) THEN <<FALSE, "Session ID is required">>
    ELSE <<TRUE, "">>

(***************************************************************************)
(* SpecLead: the lead scorer's functions applied to arguments drawn from   *)
(* bounded sets.  Signal lists are every list (repeats and an unrecognized *)
(* tag included) of at most MaxOrder tags, and every subset of the nine    *)
(* tags in detection order; lengths are 0..MaxConvLen.                     *)
(***************************************************************************)
AllSignals == KnownSignals \cup {"unrecognized_tag"}

SeqsUpTo(S, n) == UNION {[1..k -> S] : k \in 0..n}

InOrder(T) == SelectSeq(SignalOrder, LAMBDA s : s \in T)

SignalLists == SeqsUpTo(AllSignals, MaxOrder) \cup {InOrder(T) : T \in SUBSET KnownSignals}

IntentLevels == {"low", "medium", "high"}

\* the double d units in the last place away from a
Neighbour(a, d) == Float(a.h, a.e + d * 100 * (2 ^ (58 - UlpExp(a))))

ScoreSamples == {Neighbour(Lit(h), d) : h \in 2..100, d \in {-1, 0, 1}} \cup {FZero}

LeadInfos ==
    UNION {[K -> {"", "x"}] : K \in SUBSET {"name", "email", "phone"}}

\* a conversation history of n messages, of which only the length is read
History(n) == [i \in 1..n |-> [role |-> IF i % 2 = 1 THEN "user" ELSE "assistant", content |-> ""]]

LeadArgs(fn, signals, n, score, level, info) ==
    [ fn |-> fn, signals |-> signals, conversation_length |-> n,
      intent_score |-> score, intent_level |-> level, lead_info |-> info ]

InitIdle ==
    /\ sessions = EmptyDict
    /\ now = 0
    /\ requests = 0
    /\ result = NoReturn
    /\ turn = NoTurn

InitLead ==
    /\ build \in Builds
    /\ InitIdle
    /\ ret = NoReturn
    /\ \/ \E sg \in SignalLists, n \in 0..MaxConvLen :
            args = LeadArgs("calculate_intent_score", sg, n, FZero, "low", EmptyDict)
       \/ \E sc \in ScoreSamples :
            build = "naive_sum" /\ args = LeadArgs("classify_intent", <<>>, 0, sc, "low", EmptyDict)
       \/ \E lv \in IntentLevels, sg \in SignalLists :
            build = "naive_sum" /\ args = LeadArgs("recommend_action", sg, 0, FZero, lv, EmptyDict)
       \/ \E info \in LeadInfos, lv \in IntentLevels, n \in 0..MaxConvLen :
            build = "naive_sum" /\ args = LeadArgs("should_request_contact_info", <<>>, n, FZero, lv, info)

Idle == UNCHANGED <<build, sessions, now, requests, result, turn>>

Call_calculate_intent_score ==
    /\ args.fn = "calculate_intent_score" /\ ret.fn = None
    /\ ret' = [fn |-> args.fn, score |-> calculate_intent_score(args.signals, args.conversation_length)]
    /\ UNCHANGED args /\ Idle

\* chat.py hands the score on to generate_lead_signals_response
Call_generate_lead_signals_response ==
    /\ args.fn = "calculate_intent_score" /\ ret.fn = "calculate_intent_score"
    /\ args' = [args EXCEPT !.fn = "generate_lead_signals_response", !.intent_score = ret.score]
    /\ ret' = [ fn |-> "generate_lead_signals_response",
                 lead_signals |-> generate_lead_signals_response(
                     args.signals, ret.score, History(args.conversation_length)) ]
    /\ Idle

Call_classify_intent ==
    /\ args.fn = "classify_intent" /\ ret.fn = None
    /\ ret' = [fn |-> args.fn, intent |-> classify_intent(args.intent_score)]
    /\ UNCHANGED args /\ Idle

Call_recommend_action ==
    /\ args.fn = "recommend_action" /\ ret.fn = None
    /\ ret' = [fn |-> args.fn, action |-> recommend_action(args.intent_level, args.signals)]
    /\ UNCHANGED args /\ Idle

Call_should_request_contact_info ==
    /\ args.fn = "should_request_contact_info" /\ ret.fn = None
    /\ ret' = [fn |-> args.fn, request |-> should_request_contact_info(args.lead_info, args.intent_level,
                                                        args.conversation_length)]
    /\ UNCHANGED args /\ Idle

NextLead ==
    \/ Call_calculate_intent_score
    \/ Call_generate_lead_signals_response
    \/ Call_classify_intent
    \/ Call_recommend_action
    \/ Call_should_request_contact_info

SpecLead == InitLead /\ [][NextLead]_vars

(***************************************************************************)
(* Properties of the lead scorer, checked under SpecLead.                  *)
(***************************************************************************)
Min(a, b) == IF a <= b THEN a ELSE b

Abs(x) == IF x < 0 THEN 0 - x ELSE x

Distinct(list) == Cardinality(ToSet(list)) = Len(list)

\* the weight of a tag as the specification states it, in hundredths
SpecWeight(tag) ==
    CASE tag = "budget_mentioned" -> 15
      [] tag = "specific_requirements" -> 12
      [] tag = "timeline_mentioned" -> 15
      [] tag = "location_preference" -> 8
      [] tag = "luxury_feature_interest" -> 8
      [] tag = "comparison_intent" -> 10
      [] tag = "purchase_process_inquiry" -> 15
      [] tag = "viewing_interest" -> 20
      [] tag = "current_situation_shared" -> 10
      [] OTHER -> 5

RECURSIVE SpecWeightSum(_)
SpecWeightSum(list) ==
    IF list = <<>> THEN 0 ELSE SpecWeight(Head(list)) + SpecWeightSum(Tail(list))

\* min(sum of weights + min(0.02 n, 0.15), 1.0) in exact decimal arithmetic, in hundredths
SpecScore(list, n) == Min(SpecWeightSum(list) + Min(2 * n, 15), 100)

\* C2: the intent score calculate_intent_score returns, and the intent_score
\* reported in lead_signals, lies in [0,1] for every signal list (all nine
\* tags together and unrecognized tags included) and every length >= 0.
C2_ScoreInUnitInterval ==
    /\ ret.fn = "calculate_intent_score" =>
          FGe(ret.score, FZero) /\ FLe(ret.score, Float(100, 0))
    /\ ret.fn = "generate_lead_signals_response" =>
          ret.lead_signals.intent_score >= 0 /\ ret.lead_signals.intent_score <= 100

\* all nine tags together, whose weights exceed 1: the cap acts
C2_Witness ==
    /\ ret.fn = "generate_lead_signals_response"
    /\ ToSet(args.signals) = KnownSignals
    /\ SpecWeightSum(args.signals) > 100
    /\ ret.lead_signals.intent_score = 100

\* C3: calculate_intent_score never decreases when a tag is added to the
\* signals or when the conversation length grows, and the engagement bonus
\* is 0.02 * n for n <= 7 and exactly 0.15 for every n >= 8.
C3_ScoreMonotone ==
    ret.fn = "calculate_intent_score" =>
        LET n == args.conversation_length
        IN  /\ \A t \in AllSignals :
                  FGe(calculate_intent_score(Append(args.signals, t), n), ret.score)
            /\ FGe(calculate_intent_score(args.signals, n + 1), ret.score)
            /\ engagement_bonus(n) = IF n <= 7 THEN Lit(2 * n) ELSE Lit(15)
            /\ engagement_bonus(n + 1) = IF n + 1 <= 7 THEN Lit(2 * (n + 1)) ELSE Lit(15)

\* a score below the cap at a length where the bonus has saturated
C3_Witness ==
    /\ ret.fn = "calculate_intent_score"
    /\ args.conversation_length >= 8
    /\ Len(args.signals) >= 2
    /\ ret.score.h < 100

\* C4: for distinct tags S and length n, calculate_intent_score is
\* min(sum of the fixed weights of S + min(0.02 n, 0.15), 1.0): the double it
\* returns is within 10^-15 (28823 units of 2^-58 / 100) of that decimal
\* value, and its rounding to two decimals, the reported score, is exactly it.
C4_ScoreFormula ==
    /\ (ret.fn = "calculate_intent_score" /\ Distinct(args.signals)) =>
          /\ Round2(ret.score) = SpecScore(args.signals, args.conversation_length)
          /\ Abs(ret.score.e) < 28823
    /\ (ret.fn = "generate_lead_signals_response" /\ Distinct(args.signals)) =>
          ret.lead_signals.intent_score = SpecScore(args.signals, args.conversation_length)

\* an unrecognized tag beside known ones, below the cap
C4_Witness ==
    /\ ret.fn = "calculate_intent_score"
    /\ Distinct(args.signals)
    /\ In("unrecognized_tag", args.signals)
    /\ In("viewing_interest", args.signals)
    /\ args.conversation_length = 3
    /\ Round2(ret.score) = 31

\* C6: recommend_action looks the action up with the stated precedence.
C6_RecommendAction ==
    ret.fn = "recommend_action" =>
        LET has(tag) == tag \in ToSet(args.signals)
            level == args.intent_level
        IN  ret.action =
                CASE level = "high" /\ has("viewing_interest") -> "schedule_viewing_immediately"
                  [] level = "high" /\ ~has("viewing_interest") ->
                        "capture_contact_and_schedule_callback"
                  [] level = "medium" /\ has("specific_requirements") ->
                        "show_floorplans_and_qualify"
                  [] level = "medium" /\ ~has("specific_requirements") /\ has("comparison_intent") ->
                        "provide_comparison_capture_preference"
                  [] level = "medium" /\ ~has("specific_requirements") /\ ~has("comparison_intent") ->
                        "share_more_details_build_interest"
                  [] level = "low" -> "educate_and_build_interest"

\* medium, with specific_requirements and comparison_intent both present
C6_Witness ==
    /\ ret.fn = "recommend_action"
    /\ args.intent_level = "medium"
    /\ In("specific_requirements", args.signals)
    /\ In("comparison_intent", args.signals)
    /\ ret.action = "show_floorplans_and_qualify"

\* C7: should_request_contact_info asks for nothing below length 2; at tier
\* high it asks for a contact method when neither phone nor email is on file,
\* else for the name when it is missing, else for nothing; at tier medium it
\* asks for the email only from length 3 on and when it is missing; at tier
\* low it asks for nothing.
C7_RequestContact ==
    ret.fn = "should_request_contact_info" =>
        LET onFile(k) == k \in DOMAIN args.lead_info /\ args.lead_info[k] # ""
            level == args.intent_level
            n == args.conversation_length
            nothing == ret.request[1] = FALSE
            asks(what) == ret.request[1] = TRUE /\ ret.request[2] = what
        IN  /\ n < 2 => nothing
            /\ (n >= 2 /\ level = "high" /\ ~onFile("phone") /\ ~onFile("email")) =>
                  asks("contact_method")
            /\ (n >= 2 /\ level = "high" /\ (onFile("phone") \/ onFile("email")) /\ ~onFile("name")) =>
                  asks("name")
            /\ (n >= 2 /\ level = "high" /\ (onFile("phone") \/ onFile("email")) /\ onFile("name")) =>
                  nothing
            /\ (level = "medium" /\ n >= 3 /\ ~onFile("email")) => asks("email_for_brochure")
            /\ (level = "medium" /\ (n < 3 \/ onFile("email"))) => nothing
            /\ level = "low" => nothing

\* tier high with only a phone number on file: the name is asked for
C7_Witness ==
    /\ ret.fn = "should_request_contact_info"
    /\ args.intent_level = "high"
    /\ args.conversation_length = 2
    /\ DOMAIN args.lead_info = {"phone"}
    /\ args.lead_info["phone"] # ""
    /\ ret.request = <<TRUE, "name">>

(***************************************************************************)
(* SpecRag: the functions of retrieval/rag.py applied to hit lists, chunk  *)
(* contents and reply texts drawn from bounded sets.  A text hit is the    *)
(* record retrieve_context builds (its metadata field, which nothing       *)
(* downstream reads, is left out); an image hit likewise.                  *)
(***************************************************************************)
TextHit(content, page) == [content |-> content, source |-> "floorplans_pdf", page |-> page]

ImageHit(description, page) ==
    [ path |-> "data/WebP/AlBadia_Floorplans_A3_Rev11-" \o page \o ".webp",
      description |-> description,
      page |-> page,
      filename |-> "AlBadia_Floorplans_A3_Rev11-" \o page \o ".webp",
      relevance |-> "floorplan" ]

ChunkTexts ==
    { "3BR MIA Type A ground floor",
      "4 bedroom SHADEA Type B with private pool",
      "Al Badia Villas community overview" }

\* descriptions as generate_image_description writes them for pages 4 and 7
Descriptions ==
    { "3BR MIA Type A floorplan - Ground and first floor layout without pool",
      "4BR SHADEA Type B floorplan - Ground and first floor layout with swimming pool with pool" }

TextHits == {TextHit(c, pg) : c \in ChunkTexts, pg \in {"4", "7", "unknown"}}

ImageHits ==
    {ImageHit(d, pg) : d \in Descriptions, pg \in {None, "4", "7"}}
    \cup {ImageHit("5BR MODEA Type A and Type B floorplans - Ground and first floor layouts", "8")}

RagQueries ==
    { "Hello",
      "Show me the 4 bedroom villa with a pool",
      "Is the 3BR or the 5 bedroom bigger?" }

\* chunk contents handed to extract_villa_type_from_content
Contents ==
    ChunkTexts \cup
    { "Spacious 3BR villa",
      "5 bedroom MODEA villa with pool",
      "MIA Type A",
      "3BR MIA and 4BR SHADEA Type B" }

\* reply texts handed to identify_mentioned_properties
ReplyBodies ==
    { "Our sales team will confirm the price.",
      "The 5BR villa has six bathrooms.",
      "The MIA Type A villa is on page 4.",
      "Type B adds a private pool.",
      "Compare the 3BR MIA Type A with the 4BR SHADEA." }

RagArgs(fn, pdf_results, images, query) ==
    [fn |-> fn, pdf_results |-> pdf_results, images |-> images, query |-> query]

InitRag ==
    /\ build = "naive_sum"
    /\ InitIdle
    /\ ret = NoReturn
    /\ \/ \E hits \in SeqsUpTo(TextHits, MaxHits) :
            args = RagArgs("extract_citations", hits, <<>>, "")
       \/ \E imgs \in SeqsUpTo(ImageHits, MaxImages), q \in RagQueries,
             hits \in { <<>>, <<TextHit("3BR MIA Type A ground floor", "4")>>,
                        << TextHit("4 bedroom SHADEA Type B with private pool", "7"),
                           TextHit("Al Badia Villas community overview", "unknown") >> } :
            args = RagArgs("rank_images_by_relevance", hits, imgs, q)
       \/ \E content \in Contents :
            args = [fn |-> "extract_villa_type_from_content", content |-> content]
       \/ \E response_text \in ReplyBodies :
            args = [fn |-> "identify_mentioned_properties", response_text |-> response_text]
       \/ \E hits \in SeqsUpTo(TextHits, MaxHits) :
            args = RagArgs("format_context_for_prompt", hits, <<>>, "")

Call_extract_citations ==
    /\ args.fn = "extract_citations" /\ ret.fn = None
    /\ ret' = [fn |-> args.fn, citations |-> extract_citations(args.pdf_results)]
    /\ UNCHANGED args /\ Idle

Call_rank_images_by_relevance ==
    /\ args.fn = "rank_images_by_relevance" /\ ret.fn = None
    /\ ret' = [ fn |-> args.fn,
                ranked |-> rank_images_by_relevance(args.images, args.query, args.pdf_results) ]
    /\ UNCHANGED args /\ Idle

Call_extract_villa_type_from_content ==
    /\ args.fn = "extract_villa_type_from_content" /\ ret.fn = None
    /\ ret' = [fn |-> args.fn, villa_type |-> extract_villa_type_from_content(args.content)]
    /\ UNCHANGED args /\ Idle

Call_identify_mentioned_properties ==
    /\ args.fn = "identify_mentioned_properties" /\ ret.fn = None
    /\ \E properties \in identify_mentioned_properties(args.response_text) :
          ret' = [fn |-> args.fn, properties |-> properties]
    /\ UNCHANGED args /\ Idle

Call_format_context_for_prompt ==
    /\ args.fn = "format_context_for_prompt" /\ ret.fn = None
    /\ ret' = [fn |-> args.fn, context |-> format_context_for_prompt(args.pdf_results)]
    /\ UNCHANGED args /\ Idle

NextRag ==
    \/ Call_extract_citations
    \/ Call_rank_images_by_relevance
    \/ Call_extract_villa_type_from_content
    \/ Call_identify_mentioned_properties
    \/ Call_format_context_for_prompt

SpecRag == InitRag /\ [][NextRag]_vars

(***************************************************************************)
(* Properties of the retriever's functions, checked under SpecRag.         *)
(***************************************************************************)
\* the position of the first hit on a page
FirstHitOn(hits, page) == CHOOSE i \in 1..Len(hits) :
    hits[i].page = page /\ \A j \in 1..(i - 1) : hits[j].page # page

\* C8: extract_citations never returns two citations with the same page,
\* returns exactly one citation for each distinct page of the hits, and
\* orders them by the first occurrence of their page in the hit list.
C8_CitationsDistinctFirstSeen ==
    ret.fn = "extract_citations" =>
        LET hits == args.pdf_results
            cites == ret.citations
            pages == {hits[i].page : i \in 1..Len(hits)}
        IN  /\ \A i, j \in 1..Len(cites) : i # j => cites[i].page # cites[j].page
            /\ {cites[i].page : i \in 1..Len(cites)} = pages
            /\ Len(cites) = Cardinality(pages)
            /\ \A i, j \in 1..Len(cites) :
                  i < j => FirstHitOn(hits, cites[i].page) < FirstHitOn(hits, cites[j].page)

\* a page hit twice with another page in between
C8_Witness ==
    /\ ret.fn = "extract_citations"
    /\ Len(args.pdf_results) = 3
    /\ args.pdf_results[1].page = "7"
    /\ args.pdf_results[2].page = "4"
    /\ args.pdf_results[3].page = "7"
    /\ Len(ret.citations) = 2
    /\ ret.citations[1].page = "7"
    /\ ret.citations[2].page = "4"

\* C9: of two images that differ only in the page, one on a page of the text
\* hits and one on no such page (or with no page), rank_images_by_relevance
\* puts the first strictly before the second, whatever the input order.
C9_ReferencedPageFirst ==
    ret.fn = "rank_images_by_relevance" =>
        LET out == ret.ranked
            referenced(img) == \E k \in 1..Len(args.pdf_results) : args.pdf_results[k].page = img.page
        IN  /\ Len(out) = Len(args.images)
            /\ \A i, j \in 1..Len(out) :
                  ( /\ out[i].description = out[j].description
                    /\ referenced(out[i])
                    /\ ~referenced(out[j]) ) => i < j

\* the image on the unreferenced page comes first in the input and second in the output
C9_Witness ==
    /\ ret.fn = "rank_images_by_relevance"
    /\ Len(args.images) = 2
    /\ args.images[1].description = args.images[2].description
    /\ args.images[1].page = None
    /\ args.images[2].page = "7"
    /\ \E k \in 1..Len(args.pdf_results) : args.pdf_results[k].page = "7"
    /\ ret.ranked = <<args.images[2], args.images[1]>>

\* the citation labels, the more specific label of each villa family first,
\* each with its bedroom count and its other keywords
CitationLabels ==
    << <<"3BR MIA Type B with Pool", "3", <<"MIA", "TYPE B", "POOL">> >>,
       <<"3BR MIA Type A", "3", <<"MIA", "TYPE A">> >>,
       <<"4BR SHADEA Type B with Pool", "4", <<"SHADEA", "TYPE B", "POOL">> >>,
       <<"4BR SHADEA Type A", "4", <<"SHADEA", "TYPE A">> >>,
       <<"5BR MODEA Type B", "5", <<"MODEA", "TYPE B">> >>,
       <<"5BR MODEA Type A", "5", <<"MODEA", "TYPE A">> >> >>

\* the content names this bedroom count, in either spelling
BedroomToken(content, count) ==
    Has(Upper(content), count \o "BR") \/ Has(Upper(content), count \o " BEDROOM")

\* how many keywords of a citation label the content holds
KeywordsPresent(label, content) ==
    (IF BedroomToken(content, label[2]) THEN 1 ELSE 0)
    + Cardinality({i \in 1..Len(label[3]) : Has(Upper(content), label[3][i])})

\* the labels holding at least two of their keywords
Reaching(content) ==
    {i \in 1..Len(CitationLabels) : KeywordsPresent(CitationLabels[i], content) >= 2}

\* C21: extract_villa_type_from_content returns a villa-type label only when
\* at least two of that label's keywords are in the content, the first such
\* label in most-specific-first order, and "General information" whenever no
\* label reaches two keywords.
C21_LabelNeedsTwoKeywords ==
    ret.fn = "extract_villa_type_from_content" =>
        LET reaching == Reaching(args.content)
        IN  /\ reaching = {} => ret.villa_type = "General information"
            /\ ret.villa_type # "General information" =>
                  \E i \in reaching :
                      /\ CitationLabels[i][1] = ret.villa_type
                      /\ \A j \in reaching :
                            CitationLabels[j][2] = CitationLabels[i][2] => i <= j

\* a chunk that holds the bedroom count and no other keyword of any label is
\* labelled with the Type A villa of that count
C21_Witness ==
    /\ ret.fn = "extract_villa_type_from_content"
    /\ args.content = "Spacious 3BR villa"
    /\ Reaching(args.content) = {}
    /\ ret.villa_type = "3BR MIA Type A"

\* C21, as the code has it: the label is that of the smallest bedroom count
\* the content names, one keyword sufficing; it is the Type B label exactly
\* when the content holds "type b" or, for 3 and 4 bedrooms, "pool"; a
\* content naming no bedroom count is "General information".
C21_LabelByBedroomCount ==
    ret.fn = "extract_villa_type_from_content" =>
        LET named == {c \in {"3", "4", "5"} : BedroomToken(args.content, c)}
            text == Lower(args.content)
            typeB(c) == Has(text, "type b") \/ (c # "5" /\ Has(text, "pool"))
        IN  IF named = {} THEN ret.villa_type = "General information"
            ELSE \E c \in named :
                    /\ \A d \in named : d = c \/ Has("345", c \o d) \/ Has("35", c \o d)
                    /\ \E i \in 1..Len(CitationLabels) :
                          /\ CitationLabels[i][1] = ret.villa_type
                          /\ CitationLabels[i][2] = c
                          /\ (i \in {1, 3, 5}) = typeB(c)

\* the six villa identifiers and the keywords of each
VillaKeywords ==
    [ id \in { "3BR-MIA-TYPE-A", "3BR-MIA-TYPE-B", "4BR-SHADEA-TYPE-A",
               "4BR-SHADEA-TYPE-B", "5BR-MODEA-TYPE-A", "5BR-MODEA-TYPE-B" } |->
        { SubSeq(id, 1, 3),
          IF Has(id, "MIA") THEN "mia" ELSE IF Has(id, "SHADEA") THEN "shadea" ELSE "modea",
          IF Has(id, "TYPE-A") THEN "Type A" ELSE "Type B" }
        \cup (IF Has(id, "TYPE-B") /\ ~Has(id, "5BR") THEN {"pool"} ELSE {}) ]

\* C22: identify_mentioned_properties returns exactly the villa identifiers
\* that have at least two of their keywords in the text, letter case
\* disregarded, each once; the empty list when no identifier has two.
C22_MentionedAreTwoKeywordIds ==
    ret.fn = "identify_mentioned_properties" =>
        LET text == Lower(args.response_text)
            held(id) == {kw \in VillaKeywords[id] : Has(text, Lower(kw))}
            expected == {id \in DOMAIN VillaKeywords : Cardinality(held(id)) >= 2}
        IN  /\ ToSet(ret.properties) = expected
            /\ Len(ret.properties) = Cardinality(expected)
            /\ expected = {} => ret.properties = <<>>

\* a reply naming two families: four identifiers come back, here in an order
\* other than that of the mapping, and the 5-bedroom ones, with "TYPE A" as
\* their only keyword, do not
C22_Witness ==
    /\ ret.fn = "identify_mentioned_properties"
    /\ args.response_text = "Compare the 3BR MIA Type A with the 4BR SHADEA."
    /\ Len(ret.properties) = 4
    /\ ret.properties[1] = "4BR-SHADEA-TYPE-B"
    /\ ret.properties[4] = "3BR-MIA-TYPE-A"
    /\ ~In("5BR-MODEA-TYPE-A", ret.properties)

\* the text names this bedroom count, in either spelling, letter case disregarded
NamesBedrooms(text, count) ==
    Has(Lower(text), count \o "br") \/ Has(Lower(text), count \o " bedroom")

\* the relevance of an image: 10 for a page among the pages of the text
\* hits, 5 for each bedroom count named by the query and the description,
\* 3 for a pool in both
Relevance(img, query, pdf_results) ==
    (IF img.page # None /\ \E k \in 1..Len(pdf_results) : pdf_results[k].page = img.page
     THEN 10 ELSE 0)
    + 5 * Cardinality({c \in {"3", "4", "5"} :
                          NamesBedrooms(query, c) /\ NamesBedrooms(img.description, c)})
    + (IF Has(Lower(query), "pool") /\ Has(Lower(img.description), "pool") THEN 3 ELSE 0)

\* C23: rank_images_by_relevance returns the images it was given, each once,
\* by descending relevance (10 for a page of the text hits, never for an
\* image without a page; 5 per shared bedroom count; 3 for a shared pool),
\* images of equal relevance in the order they came in: the image at input
\* position i comes out behind exactly the images of higher relevance and
\* the earlier images of the same relevance.
C23_StableDescendingRelevance ==
    ret.fn = "rank_images_by_relevance" =>
        Let([i \in 1..Len(args.images) |-> Relevance(args.images[i], args.query, args.pdf_results)],
            LAMBDA score :
                /\ Len(ret.ranked) = Len(args.images)
                /\ \A i \in 1..Len(args.images) :
                      /\ args.images[i].page = None => score[i] < 10
                      /\ ret.ranked[ Cardinality({j \in 1..Len(score) : score[j] > score[i]})
                                     + Cardinality({j \in 1..(i - 1) : score[j] = score[i]})
                                     + 1 ] = args.images[i])

\* two images of relevance 3, the first without a page, ahead of the image of
\* relevance 18 in the input and behind it, in their input order, in the output
C23_Witness ==
    /\ ret.fn = "rank_images_by_relevance"
    /\ args.query = "Show me the 4 bedroom villa with a pool"
    /\ Len(args.images) = 3
    /\ args.images[1].page = None
    /\ args.images[2].page = "4"
    /\ args.images[3].page = "7"
    /\ Relevance(args.images[1], args.query, args.pdf_results) = 3
    /\ Relevance(args.images[2], args.query, args.pdf_results) = 3
    /\ Relevance(args.images[3], args.query, args.pdf_results) = 18
    /\ ret.ranked = <<args.images[3], args.images[1], args.images[2]>>

\* the source header of a hit
SourceHeader(hit) == "[Source: Floorplans PDF, Page " \o hit.page \o "]"

\* the length of the block of a hit: header, line break, content, line break
BlockLen(hit) == Len(SourceHeader(hit)) + 1 + Len(hit.content) + 1

\* the separator between two blocks
Separator == "\n---\n"

\* where the block of hit i starts in the context
RECURSIVE BlockStart(_, _)
BlockStart(hits, i) ==
    IF i = 1 THEN 1 ELSE BlockStart(hits, i - 1) + BlockLen(hits[i - 1]) + Len(Separator)

\* C24: format_context_for_prompt returns the non-empty sentinel "No relevant
\* information found in floorplans document." for an empty hit list, and
\* otherwise one block per hit and nothing else, in the order of the hits,
\* each block starting with the source header naming its hit's page and
\* holding the hit's content, consecutive blocks joined by the separator.
C24_ContextBlocksInRankedOrder ==
    ret.fn = "format_context_for_prompt" =>
        LET hits == args.pdf_results
            out == ret.context
            n == Len(hits)
        IN  IF n = 0
            THEN /\ out = "No relevant information found in floorplans document."
                 /\ Len(out) > 0
            ELSE /\ Len(out) = BlockStart(hits, n) + BlockLen(hits[n]) - 1
                 /\ \A i \in 1..n :
                       Let(BlockStart(hits, i), LAMBDA at :
                           /\ SubSeq(out, at, at + Len(SourceHeader(hits[i])) - 1)
                                 = SourceHeader(hits[i])
                           /\ SubSeq(out, at + Len(SourceHeader(hits[i])) + 1,
                                      at + BlockLen(hits[i]) - 2) = hits[i].content
                           /\ i > 1 => SubSeq(out, at - Len(Separator), at - 1) = Separator)

\* three hits on different pages, one of them without page metadata
C24_Witness ==
    /\ ret.fn = "format_context_for_prompt"
    /\ Len(args.pdf_results) = 3
    /\ args.pdf_results[1].page = "7"
    /\ args.pdf_results[2].page = "unknown"
    /\ args.pdf_results[3].page = "4"
    /\ args.pdf_results[1].content # args.pdf_results[3].content
    /\ Has(ret.context, "Page 7]")
    /\ Has(ret.context, "Page unknown]")
    /\ Has(ret.context, Separator \o "[Source: Floorplans PDF, Page 4]")

(***************************************************************************)
(* Spec: the service.  Clients send chat requests for a few session ids,   *)
(* an operator calls the cleanup endpoint, and time passes.  The handlers  *)
(* are coroutines that never await, so each runs to completion before the  *)
(* next starts.  args holds the last request together with what the store  *)
(* found and the provider answered for it, result the HTTP response.       *)
(***************************************************************************)
Init ==
    /\ build \in Builds
    /\ InitIdle
    /\ args = [fn |-> None]
    /\ ret = NoReturn

\* no exception surfaces in process_chat_message
NoFault == None

\* the module's vectorstore while it is None
NoVectorstore == [loaded |-> FALSE]

\* whether a request body parses as a ChatRequest: message a string of at
\* least one character, session_id a string
ChatRequest(data) ==
    /\ IsStr(data.message) /\ Len(data.message) >= 1
    /\ IsStr(data.session_id)

\* ChatContext(): the context of a request that carries none
DefaultContext == [previous_properties_viewed |-> <<>>, lead_status |-> "new"]

\* request.context.dict()
ContextOfRequest(request) ==
    IF "context" \in DOMAIN request THEN request.context ELSE DefaultContext

\* the handler were it to store the lead_status of the request context
chat_applying_context(request, vectorstore, completion, fault) ==
    /\ requests < MaxTurns
    /\ requests' = requests + 1
    /\ args' = [ fn |-> "chat", request |-> request, vectorstore |-> vectorstore,
                 completion |-> completion, fault |-> fault ]
    /\ IF ~ChatRequest(request)
       THEN /\ result' = [fn |-> "chat", status |-> 422, body |-> [detail |-> "Unprocessable Entity"]]
            /\ UNCHANGED sessions
            /\ turn' = NoTurn
       ELSE LET valid == validate_chat_request(request)
            IN  IF ~valid[1]
                THEN /\ result' = [fn |-> "chat", status |-> 400, body |-> [detail |-> valid[2]]]
                     /\ UNCHANGED sessions
                     /\ turn' = NoTurn
                ELSE IF vectorstore = NoVectorstore
                THEN /\ result' = [ fn |-> "chat", status |-> 503,
                                    body |-> [detail |-> "Service not ready. Please ensure data ingestion has been completed."] ]
                     /\ UNCHANGED sessions
                     /\ turn' = NoTurn
                ELSE IF fault # NoFault
                THEN /\ sessions' = Interrupted(sessions, request.message, request.session_id, now, fault)
                     /\ result' = [ fn |-> "chat", status |-> 500,
                                    body |-> [detail |-> "Failed to process your message. Please try again."] ]
                     /\ turn' = NoTurn
                ELSE \E made \in process_chat_message(sessions, request.message, request.session_id,
                                                      ContextOfRequest(request), vectorstore, completion, now) :
                         /\ sessions' = update_lead_status(made.sessions, request.session_id,
                                                           ContextOfRequest(request).lead_status, now)
                         /\ result' = [fn |-> "chat", status |-> 200, body |-> made.response]
                         /\ turn' = [ fn |-> "process_chat_message", retrieved |-> made.retrieved,
                                      generation |-> made.generation ]
    /\ UNCHANGED <<build, now, ret>>

\* POST /chat.  The module's vectorstore is set before the first request is
\* served and stays set.  fault names a call of process_chat_message in which
\* an exception surfaces, if one does.
chat(request, vectorstore, completion, fault) ==
    /\ requests < MaxTurns
    /\ requests' = requests + 1
    /\ args' = [ fn |-> "chat", request |-> request, vectorstore |-> vectorstore,
                 completion |-> completion, fault |-> fault ]
    /\ IF ~ChatRequest(request)
       THEN /\ result' = [fn |-> "chat", status |-> 422, body |-> [detail |-> "Unprocessable Entity"]]
            /\ UNCHANGED sessions
            /\ turn' = NoTurn
       ELSE LET valid == validate_chat_request(request)
            IN  IF ~valid[1]
                THEN /\ result' = [fn |-> "chat", status |-> 400, body |-> [detail |-> valid[2]]]
                     /\ UNCHANGED sessions
                     /\ turn' = NoTurn
                ELSE IF vectorstore = NoVectorstore
                THEN /\ result' = [ fn |-> "chat", status |-> 503,
                                    body |-> [detail |-> "Service not ready. Please ensure data ingestion has been completed."] ]
                     /\ UNCHANGED sessions
                     /\ turn' = NoTurn
                ELSE IF fault # NoFault
                THEN /\ sessions' = Interrupted(sessions, request.message, request.session_id, now, fault)
                     /\ result' = [ fn |-> "chat", status |-> 500,
                                    body |-> [detail |-> "Failed to process your message. Please try again."] ]
                     /\ turn' = NoTurn
                ELSE \E made \in process_chat_message(sessions, request.message, request.session_id,
                                                      ContextOfRequest(request), vectorstore, completion, now) :
                         /\ sessions' = made.sessions
                         /\ result' = [fn |-> "chat", status |-> 200, body |-> made.response]
                         /\ turn' = [ fn |-> "process_chat_message", retrieved |-> made.retrieved,
                                      generation |-> made.generation ]
    /\ UNCHANGED <<build, now, ret>>

\* POST /admin/cleanup-sessions
cleanup_sessions_endpoint ==
    LET swept == cleanup_expired_sessions(sessions, now)
    IN  /\ sessions' = swept.sessions
        /\ result' = [ fn |-> "cleanup_sessions_endpoint", status |-> 200,
                       body |-> [ cleaned_up |-> swept.count,
                                  message |-> "Cleaned up " \o ToString(swept.count) \o " expired sessions" ] ]
        /\ args' = [fn |-> "cleanup_sessions_endpoint"]
        /\ turn' = NoTurn
        /\ UNCHANGED <<build, now, requests, ret>>

\* datetime.now() moves on by so many hours, up to the last reading examined
Tick(hours, last) ==
    /\ now + hours <= last
    /\ now' = now + hours
    /\ UNCHANGED <<build, sessions, requests, result, args, ret, turn>>

Next ==
    \/ \E request \in Requests, vectorstore \in SearchOutcomes, completion \in Completions :
           chat(request, vectorstore, completion, NoFault)
    \/ cleanup_sessions_endpoint
    \/ Tick(ClockStep, MaxClock)

Spec == Init /\ [][Next]_vars

(***************************************************************************)
(* Properties of the service, checked under Spec.                          *)
(***************************************************************************)
\* the session the last chat request named, while the store holds it
LastSession == sessions[args.request.session_id]

ChatReturned ==
    /\ args.fn = "chat" /\ result.fn = "chat" /\ result.status = 200
    /\ args.request.session_id \in DOMAIN sessions

\* C1: while a session id stays in the store, from its lazy creation until a
\* sweep removes it, no step takes a tag out of its buying_signals or an id
\* out of its properties_viewed; so whatever is present after one turn is
\* present after every later turn.
C1_NeverShrink ==
    [][\A sid \in DOMAIN sessions \cap DOMAIN sessions' :
           /\ ToSet(sessions[sid].buying_signals) \subseteq ToSet(sessions'[sid].buying_signals)
           /\ ToSet(sessions[sid].properties_viewed) \subseteq ToSet(sessions'[sid].properties_viewed)]_vars

\* a third turn on a session whose earlier turns brought signals of two
\* messages and a property
C1_Witness ==
    /\ ChatReturned
    /\ Len(LastSession.messages) >= 6
    /\ In("viewing_interest", LastSession.buying_signals)
    /\ In("current_situation_shared", LastSession.buying_signals)
    /\ LastSession.properties_viewed # <<>>
    /\ result.body.lead_signals.signals_detected = LastSession.buying_signals

\* the tier the thresholds give a score stated in hundredths
TierOfHundredths(h) ==
    IF h >= 80 THEN "high" ELSE IF h >= 60 THEN "medium" ELSE "low"

\* C5: in every turn result the reported intent tier is the tier of the
\* reported two-decimal intent_score: high iff it is at least 0.8, medium iff
\* it is at least 0.6 and below 0.8, low iff it is below 0.6.
C5_ReportedTierOfReportedScore ==
    (result.fn = "chat" /\ result.status = 200)
        => result.body.lead_signals.intent = TierOfHundredths(result.body.lead_signals.intent_score)

\* a turn result that reports the score 0.8 with the tier medium
C5_Witness ==
    /\ ChatReturned
    /\ result.body.lead_signals.intent_score = 80
    /\ result.body.lead_signals.intent = "medium"

\* C5, as far as it holds: the reported tier is the tier of the reported
\* score, or the reported score is exactly a threshold and the tier is the
\* one below it (the score was under the threshold before it was rounded).
C5_ReportedTierUpToRounding ==
    (result.fn = "chat" /\ result.status = 200)
        => LET reported == result.body.lead_signals
           IN  \/ reported.intent = TierOfHundredths(reported.intent_score)
               \/ reported.intent_score = 80 /\ reported.intent = "medium"
               \/ reported.intent_score = 60 /\ reported.intent = "low"

\* C10: a turn whose generation fails with a provider error still returns
\* normally; its reply is the fixed fallback string; the user message and the
\* fallback reply are appended to the session's log, in this order; and the
\* session's signals and lead_info and the returned lead_signals are those of
\* the same turn with a successful generation.
C10_FallbackTurn ==
    [][(/\ requests' = requests + 1
        /\ args'.fn = "chat"
        /\ ~args'.completion.ok
        /\ validate_chat_request(args'.request)[1])
       => LET session_id == args'.request.session_id
              before == IF session_id \in DOMAIN sessions THEN sessions[session_id].messages ELSE <<>>
              after == sessions'[session_id].messages
          IN  /\ result'.status = 200
              /\ result'.body.response = FallbackReply
              /\ Len(after) = Len(before) + 2
              /\ SubSeq(after, 1, Len(before)) = before
              /\ after[Len(before) + 1].role = "user"
              /\ after[Len(before) + 1].content = args'.request.message
              /\ after[Len(before) + 2].role = "assistant"
              /\ after[Len(before) + 2].content = FallbackReply
              /\ \A completion \in {c \in Completions : c.ok} :
                     \A made \in process_chat_message(sessions, args'.request.message, session_id,
                                                      EmptyDict, args'.vectorstore, completion, now) :
                         /\ sessions'[session_id].buying_signals = made.sessions[session_id].buying_signals
                         /\ sessions'[session_id].lead_info = made.sessions[session_id].lead_info
                         /\ result'.body.lead_signals = made.response.lead_signals]_vars

\* a failed generation in a turn that detected a signal and captured contact
\* details, on a session with an earlier turn
C10_Witness ==
    /\ ChatReturned
    /\ ~args.completion.ok
    /\ result.body.response = FallbackReply
    /\ Len(LastSession.messages) >= 4
    /\ LastSession.messages[Len(LastSession.messages)].content = FallbackReply
    /\ args.request.message = IntroMessage
    /\ "phone" \in DOMAIN LastSession.lead_info
    /\ In("current_situation_shared", result.body.lead_signals.signals_detected)

\* a step that is a chat turn process_chat_message completed
CompletedTurnStep ==
    /\ requests' = requests + 1
    /\ args'.fn = "chat"
    /\ result'.status = 200

\* the session a turn finds: the stored one, or the one get_session creates
SessionFound(store, session_id) ==
    IF session_id \in DOMAIN store THEN store[session_id] ELSE NewSession(session_id, now)

\* C19: the lead score of a turn is computed after the turn's signals have
\* joined the session's: signals_detected is the session's cumulative list
\* (the earlier turns' signals and this message's), the score is the score
\* of that list at the conversation length, and the length and
\* conversation_depth count the session's messages with this turn's user
\* message and without its reply: 2k-1 on the k-th turn of the session.
C19_ScoreAfterAccumulation ==
    [][CompletedTurnStep
       => LET session_id == args'.request.session_id
              before == SessionFound(sessions, session_id)
              after == sessions'[session_id]
              reported == result'.body.lead_signals
              k == Len(after.messages) \div 2
          IN  /\ reported.signals_detected = after.buying_signals
              /\ ToSet(reported.signals_detected) =
                     ToSet(before.buying_signals)
                         \cup ToSet(Known(SignalsOf, args'.request.message,
                                          detect_buying_signals(args'.request.message)))
              /\ reported.conversation_depth = Len(before.messages) + 1
              /\ Len(after.messages) = 2 * k
              /\ reported.conversation_depth = 2 * k - 1
              /\ reported.intent_score =
                     Round2(calculate_intent_score(after.buying_signals, 2 * k - 1))]_vars

\* a third turn whose message carries one signal while the report lists the
\* six signals of the session, scored at depth 5
C19_Witness ==
    /\ ChatReturned
    /\ args.request.message = IntroMessage
    /\ Known(SignalsOf, IntroMessage, <<>>) = <<"current_situation_shared">>
    /\ Len(LastSession.messages) = 6
    /\ result.body.lead_signals.conversation_depth = 5
    /\ Len(result.body.lead_signals.signals_detected) = 6
    /\ result.body.lead_signals.signals_detected[6] = "current_situation_shared"
    /\ In("viewing_interest", result.body.lead_signals.signals_detected)

\* C20: the conversation history a turn hands to the Generation service is
\* the session's log as the turn found it, all earlier messages in order and
\* without the user message just appended; and the turn leaves the log
\* longer by exactly that user message followed by the reply generation
\* returned.
C20_HistoryBeforeTurn ==
    [][CompletedTurnStep
       => LET session_id == args'.request.session_id
              before == SessionFound(sessions, session_id).messages
              after == sessions'[session_id].messages
              n == Len(before)
          IN  /\ turn'.fn = "process_chat_message"
              /\ turn'.generation.query = args'.request.message
              /\ turn'.generation.conversation_history = before
              /\ Len(after) = n + 2
              /\ SubSeq(after, 1, n) = before
              /\ after[n + 1].role = "user"
              /\ after[n + 1].content = args'.request.message
              /\ after[n + 2].role = "assistant"
              /\ after[n + 2].content = result'.body.response
              /\ result'.body.response = generate_response(args'.completion)]_vars

\* a third turn: generation was handed the four messages of the two earlier
\* turns, user and assistant alternating, and the log now holds six
C20_Witness ==
    /\ ChatReturned
    /\ turn.fn = "process_chat_message"
    /\ Len(turn.generation.conversation_history) = 4
    /\ turn.generation.conversation_history[1].role = "user"
    /\ turn.generation.conversation_history[1].content = ViewingMessage
    /\ turn.generation.conversation_history[4].role = "assistant"
    /\ turn.generation.query = IntroMessage
    /\ Len(LastSession.messages) = 6
    /\ SubSeq(LastSession.messages, 1, 4) = turn.generation.conversation_history
    /\ LastSession.messages[5].content = IntroMessage

\* session ids a caller may name: those of the clients and one never used
SessionIds == {"s1", "s2", "s3"}

\* what a session has accumulated: every field but the time of last access
Accumulated(session) == [field \in DOMAIN session \ {"updated_at"} |-> session[field]]

\* C14: get_session on an id the store does not hold adds one session with
\* empty messages, buying_signals, properties_viewed and lead_info and
\* lead_status "new", and touches no other session; on an id the store
\* holds, and again on the id just created, it adds no session and returns
\* what the session has accumulated, entry for entry (only the time of last
\* access moves).
C14_GetSessionLazyIdempotent ==
    \A sid \in SessionIds, later \in {now, now + 1} :
        LET once == get_session(sessions, sid, now)
            twice == get_session(once, sid, later)
        IN  /\ DOMAIN once = DOMAIN sessions \cup {sid}
            /\ \A other \in DOMAIN sessions \ {sid} : once[other] = sessions[other]
            /\ IF sid \in DOMAIN sessions
               THEN Accumulated(once[sid]) = Accumulated(sessions[sid])
               ELSE /\ once[sid].session_id = sid
                    /\ once[sid].messages = <<>>
                    /\ once[sid].buying_signals = <<>>
                    /\ once[sid].properties_viewed = <<>>
                    /\ once[sid].lead_info = EmptyDict
                    /\ once[sid].lead_status = "new"
            /\ DOMAIN twice = DOMAIN once
            /\ Accumulated(twice[sid]) = Accumulated(once[sid])
            /\ twice[sid].updated_at = later
            /\ \A other \in DOMAIN once \ {sid} : twice[other] = once[other]

\* a store in which one client's session holds two turns, signals, contact
\* details and a property and was last touched earlier, while the other
\* client's id is not yet known
C14_Witness ==
    /\ "s1" \in DOMAIN sessions
    /\ "s2" \notin DOMAIN sessions
    /\ Len(sessions["s1"].messages) = 4
    /\ Len(sessions["s1"].buying_signals) >= 6
    /\ "phone" \in DOMAIN sessions["s1"].lead_info
    /\ sessions["s1"].properties_viewed # <<>>
    /\ sessions["s1"].updated_at < now
    /\ get_session(sessions, "s1", now)["s1"].messages = sessions["s1"].messages
    /\ get_session(sessions, "s2", now)["s2"].messages = <<>>

(***************************************************************************)
(* SpecRetrieval: one client's turns against the index in each condition   *)
(* it can be found in: empty, holding near documents, holding documents    *)
(* beyond the similarity threshold and more images than a search returns,  *)
(* and out of reach.                                                       *)
(***************************************************************************)
RetrievalRequests == {[message |-> m, session_id |-> "s1"] : m \in {ViewingMessage, ScenarioMessage}}

RetrievalCompletions == {PropertyReply, PlainReply}

NextRetrieval ==
    \E request \in RetrievalRequests, vectorstore \in Stores, completion \in RetrievalCompletions :
        chat(request, vectorstore, completion, NoFault)

SpecRetrieval == Init /\ [][NextRetrieval]_vars

(***************************************************************************)
(* Properties of retrieval within a turn, checked under SpecRetrieval.     *)
(***************************************************************************)
\* the last operation was a chat request that process_chat_message took up
TurnEntered ==
    /\ args.fn = "chat"
    /\ ChatRequest(args.request)
    /\ validate_chat_request(args.request)[1]

\* C11: a turn during which the index cannot be reached is aborted before
\* generation: generate_response is not called for it and the caller gets a
\* service-unavailable response (503), not a normal reply.
C11_UnreachableStoreAborts ==
    (TurnEntered /\ ~args.vectorstore.reachable)
        => (result.status = 503 /\ turn.fn = None)

\* a turn on an unreachable index that called generate_response and returned
\* a normal reply
C11_Witness ==
    /\ TurnEntered
    /\ ~args.vectorstore.reachable
    /\ result.status = 200
    /\ turn.fn = "process_chat_message"
    /\ turn.generation.query = args.request.message
    /\ result.body.response = args.completion.text

\* C11, what the code does instead: a turn on an unreachable index is the
\* turn on an empty one.  It retrieves nothing, hands the Generation service
\* the sentinel context, and returns a normal reply without citations or
\* images.
C11_UnreachableStoreAsEmpty ==
    (TurnEntered /\ ~args.vectorstore.reachable)
        => /\ result.status = 200
           /\ turn.fn = "process_chat_message"
           /\ turn.retrieved = <<<<>>, <<>>>>
           /\ turn.generation.context = "No relevant information found in floorplans document."
           /\ result.body.response = args.completion.text
           /\ result.body.citations = <<>>
           /\ result.body.images = <<>>

\* a turn that process_chat_message completed
TurnCompleted == TurnEntered /\ result.status = 200 /\ turn.fn = "process_chat_message"

\* the query contains one of the visual-intent keywords
VisualIntent(query) ==
    \E keyword \in { "floor plan", "floorplan", "layout", "show", "see", "look", "design", "image",
                     "picture", "visual", "configuration", "how does", "what does",
                     "ground floor", "first floor" } : Has(Lower(query), keyword)

\* C16: the image list of a turn result has at most 3 entries; it is
\* non-empty only if the query contains a visual-intent keyword or the reply
\* mentioned a property; and when non-empty it is the first 3 (or fewer)
\* entries of rank_images_by_relevance applied to the retrieved image hits.
C16_ImagesTopThree ==
    TurnCompleted =>
        LET images == result.body.images
            ranked == rank_images_by_relevance(turn.retrieved[2], args.request.message, turn.retrieved[1])
        IN  /\ Len(images) <= 3
            /\ images # <<>> =>
                  /\ VisualIntent(args.request.message) \/ result.body.properties_mentioned # <<>>
                  /\ images = SubSeq(ranked, 1, Min(3, Len(ranked)))

\* three images returned in an order that is not the order of retrieval,
\* from an index that holds four
C16_Witness ==
    /\ TurnCompleted
    /\ Len(args.vectorstore.floorplan_image) = 4
    /\ Len(result.body.images) = 3
    /\ result.body.images # turn.retrieved[2]
    /\ result.body.images[1].page = "7"
    /\ result.body.properties_mentioned = <<>>
    /\ VisualIntent(args.request.message)

\* C17: for the scenario message sent as the first turn of a fresh session,
\* the reported signals include specific_requirements, budget_mentioned and
\* timeline_mentioned, and the reported tier is medium or high.
C17_ScenarioFirstTurn ==
    (TurnCompleted /\ args.request.message = ScenarioMessage /\ Len(LastSession.messages) = 2)
        => /\ {"specific_requirements", "budget_mentioned", "timeline_mentioned"}
                  \subseteq ToSet(result.body.lead_signals.signals_detected)
           /\ result.body.lead_signals.intent \in {"medium", "high"}

\* the scenario's first turn: five signals, score 0.62, tier medium
C17_Witness ==
    /\ TurnCompleted
    /\ args.request.message = ScenarioMessage
    /\ LastSession.messages[1].content = ScenarioMessage
    /\ Len(LastSession.messages) = 2
    /\ result.body.lead_signals.signals_detected =
           << "budget_mentioned", "specific_requirements", "timeline_mentioned",
              "luxury_feature_interest", "comparison_intent" >>
    /\ result.body.lead_signals.intent_score = 62
    /\ result.body.lead_signals.intent = "medium"
    /\ result.body.lead_signals.conversation_depth = 1

\* the distances at which the index holds a text chunk, or an image path
DistancesOfChunk(vectorstore, content) ==
    {vectorstore.floorplans_pdf[i].distance :
        i \in {j \in 1..Len(vectorstore.floorplans_pdf) :
                  vectorstore.floorplans_pdf[j].doc.page_content = content}}

DistancesOfImage(vectorstore, path) ==
    {vectorstore.floorplan_image[i].distance :
        i \in {j \in 1..Len(vectorstore.floorplan_image) :
                  vectorstore.floorplan_image[j].doc.metadata.path = path}}

\* C18: every text hit and image hit the Retriever passes on to a turn has
\* distance <= 1 - SIMILARITY_THRESHOLD; hits the index returns at a larger
\* distance are dropped.
C18_HitsWithinThreshold ==
    TurnCompleted =>
        /\ \A i \in 1..Len(turn.retrieved[1]) :
              \A d \in DistancesOfChunk(args.vectorstore, turn.retrieved[1][i].content) :
                  d <= 100 - SIMILARITY_THRESHOLD
        /\ \A i \in 1..Len(turn.retrieved[2]) :
              \A d \in DistancesOfImage(args.vectorstore, turn.retrieved[2][i].path) :
                  d <= 100 - SIMILARITY_THRESHOLD

\* a turn whose prompt context and citations carry a chunk at distance 0.58
\* and whose images include one at distance 0.44
C18_Witness ==
    /\ TurnCompleted
    /\ args.vectorstore = FarDocs
    /\ Has(turn.generation.context, "5BR MODEA Type A first floor")
    /\ DistancesOfChunk(FarDocs, "5BR MODEA Type A first floor") = {58}
    /\ \E i \in 1..Len(result.body.citations) : result.body.citations[i].page = "9"
    /\ \E i \in 1..Len(result.body.images) :
           DistancesOfImage(FarDocs, result.body.images[i].path) = {44}

\* C18, what the code does instead: the Retriever passes on the 5 nearest
\* text chunks and the 3 nearest images of a reachable index, in the order
\* of the index, whatever their distances.
C18_NearestWhateverDistance ==
    (TurnCompleted /\ args.vectorstore.reachable) =>
        LET pdf_hits == args.vectorstore.floorplans_pdf
            image_hits == args.vectorstore.floorplan_image
        IN  /\ Len(turn.retrieved[1]) = Min(5, Len(pdf_hits))
            /\ \A i \in 1..Len(turn.retrieved[1]) :
                  turn.retrieved[1][i].content = pdf_hits[i].doc.page_content
            /\ Len(turn.retrieved[2]) = Min(3, Len(image_hits))
            /\ \A i \in 1..Len(turn.retrieved[2]) :
                  turn.retrieved[2][i].path = image_hits[i].doc.metadata.path

(***************************************************************************)
(* SpecAdverse: the service under adverse conditions.  Two clients send    *)
(* well-formed requests, others send bodies that validation has to turn    *)
(* away, an exception may surface in the middle of a turn, and the clock   *)
(* advances in steps that put a session exactly at, below and beyond its   *)
(* expiry when the cleanup endpoint is called.                             *)
(***************************************************************************)
BlankMessage == "   "

InvalidRequests ==
    {[message |-> m, session_id |-> "s1"] : m \in {None, "", BlankMessage, JsonNumber}}
    \cup {[message |-> ViewingMessage, session_id |-> sid] : sid \in {None, ""}}

AdverseRequests ==
    {[message |-> ViewingMessage, session_id |-> sid] : sid \in {"s1", "s2"}} \cup InvalidRequests

\* the calls of process_chat_message in which an exception is taken to surface
Faults == {"detect_buying_signals", "retrieve_context"}

NextAdverse ==
    \/ \E request \in AdverseRequests, fault \in Faults \cup {NoFault} :
           chat(request, SomeDocs, PropertyReply, fault)
    \/ cleanup_sessions_endpoint
    \/ Tick(SweepStep, MaxSweepClock)

SpecAdverse == Init /\ [][NextAdverse]_vars

(***************************************************************************)
(* Properties of the service under adverse conditions, checked under       *)
(* SpecAdverse.                                                            *)
(***************************************************************************)
\* a step that is a chat request
ChatStep == requests' = requests + 1 /\ args'.fn = "chat"

\* a message of blanks only
IsBlank(message) ==
    \A i \in 1..Len(message) : CharAt(message, i) \in {" ", "\t", "\n", "\r"}

\* a body to be turned away: message missing, empty, blank or no string,
\* or session id missing or empty
Malformed(data) ==
    \/ data.message = None
    \/ ~IsStr(data.message)
    \/ data.message = ""
    \/ IsBlank(data.message)
    \/ data.session_id = None
    \/ data.session_id = ""

\* C12: a request whose message is missing, empty, blank or no string, or
\* whose session id is missing or empty, is answered with a client error,
\* and it leaves the session store as it was: no session is created, none
\* is modified, and process_chat_message is not entered.
C12_RejectedWithoutSideEffects ==
    [][(ChatStep /\ Malformed(args'.request))
       => /\ result'.status \in {400, 422}
          /\ sessions' = sessions
          /\ turn' = NoTurn]_vars

\* a blank message turned away for a session that holds an earlier turn and
\* has not been touched since
C12_Witness ==
    /\ args.fn = "chat"
    /\ args.request.message = BlankMessage
    /\ result.status = 400
    /\ result.body.detail = "Message cannot be empty"
    /\ args.request.session_id \in DOMAIN sessions
    /\ Len(LastSession.messages) = 2
    /\ LastSession.updated_at < now

\* the user messages of a session's log
UserMessages(session) ==
    {session.messages[i].content : i \in {j \in 1..Len(session.messages) : session.messages[j].role = "user"}}

\* the signals of a message, as detect_buying_signals finds them
Detected(message) == ToSet(Known(SignalsOf, message, detect_buying_signals(message)))

\* C13: whatever call of process_chat_message an unexpected error surfaces
\* in, no session is left holding a user message in its log while signals
\* detected in that message are missing from its buying_signals.
C13_NoMessageWithoutSignals ==
    \A sid \in DOMAIN sessions :
        \A message \in UserMessages(sessions[sid]) :
            Detected(message) \subseteq ToSet(sessions[sid].buying_signals)

\* a turn answered 500 whose message is in the log while the session has
\* none of the five signals of the message
C13_Witness ==
    /\ args.fn = "chat"
    /\ args.fault = "detect_buying_signals"
    /\ result.status = 500
    /\ args.request.session_id \in DOMAIN sessions
    /\ LastSession.messages[Len(LastSession.messages)].role = "user"
    /\ LastSession.messages[Len(LastSession.messages)].content = args.request.message
    /\ Cardinality(Detected(args.request.message)) = 5
    /\ LastSession.buying_signals = <<>>

\* C13, as far as it holds: once a turn has got past the loop that records
\* the signals (it completed, or the error surfaced in retrieval), the
\* session holds the message together with its signals.
C13_SignalsRecordedPastDetection ==
    (TurnEntered /\ args.fault # "detect_buying_signals" /\ args.request.session_id \in DOMAIN sessions)
        => /\ args.request.message \in UserMessages(LastSession)
           /\ Detected(args.request.message) \subseteq ToSet(LastSession.buying_signals)

\* a step that is a call of the cleanup endpoint
CleanupStep == args'.fn = "cleanup_sessions_endpoint" /\ requests' = requests /\ now' = now

\* when a session-store operation last referred to the session: every turn
\* that refers to a session logs its user message first
LastReferenced(session) == session.messages[Len(session.messages)].timestamp

\* C15: a sweep removes the sessions last referred to more than 24 hours
\* ago and no others, leaves every session it keeps as it was and returns
\* the number it removed; no other step removes a session.
C15_SweepRemovesExactlyExpired ==
    [][IF CleanupStep
       THEN /\ DOMAIN sessions' =
                   {sid \in DOMAIN sessions : now - LastReferenced(sessions[sid]) <= SESSION_EXPIRY_HOURS}
            /\ \A sid \in DOMAIN sessions' : sessions'[sid] = sessions[sid]
            /\ result'.body.cleaned_up = Cardinality(DOMAIN sessions \ DOMAIN sessions')
       ELSE DOMAIN sessions \subseteq DOMAIN sessions']_vars

\* a sweep that removed a session 36 hours old and kept one exactly 24 hours old
C15_Witness ==
    /\ result.fn = "cleanup_sessions_endpoint"
    /\ result.body.cleaned_up = 1
    /\ DOMAIN sessions = {"s2"}
    /\ now - sessions["s2"].updated_at = SESSION_EXPIRY_HOURS
    /\ now - LastReferenced(sessions["s2"]) = SESSION_EXPIRY_HOURS

(***************************************************************************)
(* SpecContact: two clients converse over successive turns, giving,        *)
(* correcting and withholding contact details and showing more or less     *)
(* intent.                                                                 *)
(***************************************************************************)
ContactRequests ==
    {[message |-> m, session_id |-> sid] :
        m \in {IntroMessage, ContactMessage, ViewingMessage, ScenarioMessage},
        sid \in {"s1", "s2"}}

NextContact ==
    \E request \in ContactRequests : chat(request, NoDocs, PlainReply, NoFault)

SpecContact == Init /\ [][NextContact]_vars

\* the contact fields each message carries
ContactFields ==
    (IntroMessage :> ("name" :> "Sara Khan" @@ "phone" :> "+971 50 123 4567"))
    @@ (ContactMessage :> ("name" :> "Omar" @@ "email" :> "omar@mail.com"))
    @@ (ViewingMessage :> EmptyDict)
    \* the name patterns are matched ignoring case: "I'm looking for a ..."
    @@ (ScenarioMessage :> ("name" :> "looking for"))

\* C25: in a turn, every contact field (name, email, phone) the message
\* carries replaces the field of that name in the session's lead_info, and
\* every field the message does not carry stays as it was, present or
\* absent; a message without contact data leaves lead_info as it was.
C25_ContactFieldsMerged ==
    [][CompletedTurnStep
       => LET session_id == args'.request.session_id
              carried == ContactFields[args'.request.message]
              before == SessionFound(sessions, session_id).lead_info
              after == sessions'[session_id].lead_info
          IN  /\ DOMAIN after \subseteq {"name", "email", "phone"}
              /\ \A field \in {"name", "email", "phone"} :
                    IF field \in DOMAIN carried
                    THEN Get(after, field) = carried[field]
                    ELSE Get(after, field) = Get(before, field)
              /\ carried = EmptyDict => after = before]_vars

\* a client who introduced herself with name and phone, then gave another
\* name and an email, then asked a question: the name is the later one, the
\* phone is still the first turn's, the email is held too
C25_Witness ==
    /\ "s1" \in DOMAIN sessions
    /\ Len(sessions["s1"].messages) = 6
    /\ sessions["s1"].messages[1].content = IntroMessage
    /\ sessions["s1"].messages[3].content = ContactMessage
    /\ sessions["s1"].messages[5].content = ViewingMessage
    /\ sessions["s1"].lead_info =
          ("name" :> "Omar" @@ "phone" :> "+971 50 123 4567" @@ "email" :> "omar@mail.com")

(***************************************************************************)
(* SpecContext: a client sends requests with and without the optional      *)
(* context.                                                                *)
(***************************************************************************)
Contexts ==
    { DefaultContext,
      [previous_properties_viewed |-> <<"5BR-MODEA-TYPE-A">>, lead_status |-> "hot"],
      [previous_properties_viewed |-> <<>>, lead_status |-> "converted"] }

ContextRequests ==
    {[message |-> m, session_id |-> sid] :
        m \in {ViewingMessage, IntroMessage}, sid \in {"s1", "s2"}}
    \cup {[message |-> m, session_id |-> sid, context |-> c] :
              m \in {ViewingMessage, IntroMessage}, sid \in {"s1", "s2"}, c \in Contexts}

NextContext ==
    \E request \in ContextRequests : chat(request, SomeDocs, PropertyReply, NoFault)

SpecContext == Init /\ [][NextContext]_vars

\* C30: the optional request context has no effect on a turn: the turn one
\* request makes is a turn the same request makes with any other context,
\* from the same session state, search results and completion, with the
\* same response and the same store afterwards; the turn leaves the
\* session's lead_status as it was and adds to properties_viewed nothing
\* but the properties the reply mentions.
C30_ContextHasNoEffect ==
    [][CompletedTurnStep
       => LET request == args'.request
              session_id == request.session_id
              before == SessionFound(sessions, session_id)
          IN  /\ \A context \in Contexts :
                    \E made \in process_chat_message(sessions, request.message, session_id, context,
                                                      args'.vectorstore, args'.completion, now) :
                        /\ made.sessions = sessions'
                        /\ made.response = result'.body
              /\ sessions'[session_id].lead_status = before.lead_status
              /\ ToSet(sessions'[session_id].properties_viewed)
                    = ToSet(before.properties_viewed) \cup ToSet(result'.body.properties_mentioned)]_vars

\* a turn whose context says the lead is hot and has viewed the 5-bedroom
\* villa: the session still says new and holds the replied property only
C30_Witness ==
    /\ ChatReturned
    /\ "context" \in DOMAIN args.request
    /\ args.request.context.lead_status = "hot"
    /\ args.request.context.previous_properties_viewed = <<"5BR-MODEA-TYPE-A">>
    /\ sessions["s1"].lead_status = "new"
    /\ sessions["s1"].properties_viewed = <<"3BR-MIA-TYPE-A">>

\* the place of a tier among the tiers
TierRank(intent_level) == CHOOSE i \in 1..3 : <<"low", "medium", "high">>[i] = intent_level

\* what the last completed turn of a session reported: the report made of
\* the signals it holds at the length its log had before the reply
LastReport(session) ==
    generate_lead_signals_response(
        session.buying_signals,
        calculate_intent_score(session.buying_signals, Len(session.messages) - 1),
        SubSeq(session.messages, 1, Len(session.messages) - 1))

\* C27: over the successive turns of a session that stays in the store, the
\* reported intent_score never decreases and the reported tier never moves
\* down, whatever the messages are: each turn reports at least what the
\* session's previous turn reported, and at least what the previous
\* response says when that response was the same session's.
C27_ReportNeverFalls ==
    [][(CompletedTurnStep /\ args'.request.session_id \in DOMAIN sessions)
       => LET session_id == args'.request.session_id
              reported == result'.body.lead_signals
              earlier == LastReport(sessions[session_id])
          IN  /\ Len(sessions[session_id].messages) >= 2
              /\ reported.intent_score >= earlier.intent_score
              /\ TierRank(reported.intent) >= TierRank(earlier.intent)
              /\ (args.fn = "chat" /\ args.request.session_id = session_id)
                    => /\ result.status = 200
                       /\ result.body.lead_signals = earlier
                       /\ reported.intent_score >= result.body.lead_signals.intent_score
                       /\ TierRank(reported.intent) >= TierRank(result.body.lead_signals.intent)]_vars

\* three successive turns of one session reporting 0.12 low, 0.76 medium
\* and 1.0 high
C27_Witness ==
    /\ ChatReturned
    /\ args.request.session_id = "s1"
    /\ Len(sessions["s1"].messages) = 6
    /\ sessions["s1"].messages[1].content = IntroMessage
    /\ sessions["s1"].messages[3].content = ScenarioMessage
    /\ sessions["s1"].messages[5].content = ViewingMessage
    /\ LastReport([sessions["s1"] EXCEPT !.messages = SubSeq(@, 1, 2),
                                         !.buying_signals = SubSeq(@, 1, 1)]).intent_score = 12
    /\ LastReport([sessions["s1"] EXCEPT !.messages = SubSeq(@, 1, 2),
                                         !.buying_signals = SubSeq(@, 1, 1)]).intent = "low"
    /\ LastReport([sessions["s1"] EXCEPT !.messages = SubSeq(@, 1, 4),
                                         !.buying_signals = SubSeq(@, 1, 6)]).intent_score = 76
    /\ LastReport([sessions["s1"] EXCEPT !.messages = SubSeq(@, 1, 4),
                                         !.buying_signals = SubSeq(@, 1, 6)]).intent = "medium"
    /\ result.body.lead_signals.intent_score = 100
    /\ result.body.lead_signals.intent = "high"

(***************************************************************************)
(* ingestion/pdf_processor.py: chunk_text.  Positions are Python's, from   *)
(* 0; a negative position in a slice or a search counts from the end of    *)
(* the text.                                                               *)
(***************************************************************************)
\* the position a slice bound stands for in a text of n characters
PyIndex(i, n) ==
    IF i < 0 THEN (IF i + n < 0 THEN 0 ELSE i + n)
    ELSE IF i > n THEN n ELSE i

\* text[start:end]
Slice(text, start, end) ==
    LET s == PyIndex(start, Len(text))
        e == PyIndex(end, Len(text))
    IN  IF s >= e THEN "" ELSE SubSeq(text, s + 1, e)

\* text.rfind(ch, start, end): the last position of ch within the slice, or -1
rfind(text, ch, start, end) ==
    \* what the call is given is worked out once
    Let(<<text, PyIndex(start, Len(text)), PyIndex(end, Len(text))>>, LAMBDA given :
        IF \E i \in given[2]..(given[3] - 1) : CharAt(given[1], i + 1) = ch
        THEN CHOOSE i \in given[2]..(given[3] - 1) :
                /\ CharAt(given[1], i + 1) = ch
                /\ \A j \in (i + 1)..(given[3] - 1) : CharAt(given[1], j + 1) # ch
        ELSE -1)

\* s.strip()
Strip(s) ==
    Let(s, LAMBDA given :
        IF \A i \in 1..Len(given) : Has(Whitespace, CharAt(given, i)) THEN ""
        ELSE SubSeq(given,
                    CHOOSE i \in 1..Len(given) :
                        /\ ~Has(Whitespace, CharAt(given, i))
                        /\ \A j \in 1..(i - 1) : Has(Whitespace, CharAt(given, j)),
                    CHOOSE i \in 1..Len(given) :
                        /\ ~Has(Whitespace, CharAt(given, i))
                        /\ \A j \in (i + 1)..Len(given) : Has(Whitespace, CharAt(given, j))))

\* max(a, b)
PyMax(a, b) == IF a >= b THEN a ELSE b

\* where one pass of the while loop, begun at start, ends its chunk
ChunkEnd(text, chunk_size, start) ==
    LET end == start + chunk_size
        last_period == rfind(text, ".", start, end)
        last_newline == rfind(text, "\n", start, end)
        break_point == PyMax(last_period, last_newline)
    IN  IF end < Len(text) /\ break_point > start THEN break_point + 1 ELSE end

\* the characters of the texts: a letter, a sentence end, a line end
ChunkAlphabet == {"a", ".", "\n"}

RECURSIVE TextsOfLen(_)
TextsOfLen(n) ==
    IF n = 0 THEN {""} ELSE {t \o c : t \in TextsOfLen(n - 1), c \in ChunkAlphabet}

Texts == UNION {TextsOfLen(n) : n \in 0..MaxTextLen}

\* The list of chunks grows until memory is exhausted.  Memory holds this
\* many chunks: more than any call that returns makes of these texts, since
\* a pass is determined by its start and a call that returns begins no two
\* passes at the same start.
MaxChunks == MaxTextLen + MaxChunkSize + 1

InitChunk ==
    /\ build = "naive_sum"
    /\ InitIdle
    /\ ret = NoReturn
    /\ \E text \in Texts, chunk_size \in 1..MaxChunkSize :
          \E overlap \in 0..(chunk_size - 1) :
              args = [ fn |-> "chunk_text", text |-> text,
                       chunk_size |-> chunk_size, overlap |-> overlap ]

\* the call, up to the while loop
chunk_text ==
    /\ args.fn = "chunk_text" /\ ret.fn = None
    /\ ret' = IF Len(args.text) <= args.chunk_size
              THEN [fn |-> "chunk_text", at |-> "returned", start |-> 0, chunks |-> <<args.text>>]
              ELSE [fn |-> "chunk_text", at |-> "while", start |-> 0, chunks |-> <<>>]
    /\ UNCHANGED args /\ Idle

\* one pass of the while loop
chunk_text_pass ==
    /\ ret.fn = "chunk_text" /\ ret.at = "while"
    /\ ret.start < Len(args.text)
    /\ Len(ret.chunks) < MaxChunks
    /\ \E end \in {ChunkEnd(args.text, args.chunk_size, ret.start)} :
          ret' = [ ret EXCEPT !.chunks = Append(@, Strip(Slice(args.text, ret.start, end))),
                              !.start = end - args.overlap ]
    /\ UNCHANGED args /\ Idle

\* the loop condition fails: return chunks
chunk_text_return ==
    /\ ret.fn = "chunk_text" /\ ret.at = "while"
    /\ ~(ret.start < Len(args.text))
    /\ ret' = [ret EXCEPT !.at = "returned"]
    /\ UNCHANGED args /\ Idle

\* chunks.append finds no memory left
chunk_text_memory_error ==
    /\ ret.fn = "chunk_text" /\ ret.at = "while"
    /\ ret.start < Len(args.text)
    /\ Len(ret.chunks) = MaxChunks
    /\ ret' = [ret EXCEPT !.at = "MemoryError"]
    /\ UNCHANGED args /\ Idle

NextChunk ==
    \/ chunk_text
    \/ chunk_text_pass
    \/ chunk_text_return
    \/ chunk_text_memory_error

\* the interpreter runs the call on: a pass that can be made is made
SpecChunk == InitChunk /\ [][NextChunk]_vars /\ WF_vars(NextChunk)

(***************************************************************************)
(* Properties of chunk_text, checked under SpecChunk.                      *)
(***************************************************************************)
Returned == ret.fn = "chunk_text" /\ ret.at = "returned"

\* no chunk made so far is longer than chunk_size
ChunksWithinSize ==
    ret.fn = "chunk_text" =>
        \A i \in 1..Len(ret.chunks) : Len(ret.chunks[i]) <= args.chunk_size

\* C26: chunk_text terminates for every text and every chunk_size > overlap
\* >= 0, and every chunk it returns has at most chunk_size characters.
C26_ChunkTextTerminates ==
    /\ <>Returned
    /\ [](Returned => ChunksWithinSize)

\* a text longer than chunk_size whose only break in the first window lies
\* within overlap characters of the window start: the second pass begins
\* where the first did, and so does every later one until memory runs out
C26_Witness ==
    /\ ret.fn = "chunk_text"
    /\ ret.at = "MemoryError"
    /\ args.text = "a.aaa" /\ args.chunk_size = 3 /\ args.overlap = 2
    /\ ret.start = 0
    /\ \A i \in 1..Len(ret.chunks) : ret.chunks[i] = "a."

\* C26, as the code has it: no chunk is longer than chunk_size; a call
\* with an overlap of at most 1 returns; and a pass begins the next pass
\* no further on than itself only when the text goes on beyond its window
\* and the last break of the window lies less than overlap characters past
\* the window start (or the pass began before the start of the text).
C26_StallsOnBreakWithinOverlap ==
    /\ []ChunksWithinSize
    /\ [](args.overlap <= 1 => <>Returned)
    /\ [][(ret.fn = "chunk_text" /\ ret'.fn = "chunk_text" /\ ret'.start <= ret.start
           /\ Len(ret'.chunks) > Len(ret.chunks) /\ ret.start >= 0)
          => /\ ret.start + args.chunk_size < Len(args.text)
             /\ \E b \in (ret.start + 1)..(ret.start + args.overlap - 1) :
                   /\ CharAt(args.text, b + 1) \in {".", "\n"}
                   /\ \A c \in (b + 1)..(ret.start + args.chunk_size - 1) :
                         CharAt(args.text, c + 1) \notin {".", "\n"}]_vars

(***************************************************************************)
(* The chat handler statement by statement.  Several requests can be in    *)
(* flight; each handler has its locals and its position in                 *)
(* process_chat_message.  get_session returns the dict _sessions holds, so *)
(* a local refers to a dict: the one _sessions holds under the request's   *)
(* session id, or one that `_sessions[session_id] = {...}` of another      *)
(* handler has since replaced.  In these specifications `turn` maps each   *)
(* handler to its locals, `ret` lists the replaced dicts a handler still   *)
(* refers to, and `args` lists the requests answered so far.               *)
(***************************************************************************)
MaxServed == 2      \* requests clients send in a behaviour

\* the handlers that can be in flight together
Tasks == {"a", "b"}

\* a local that refers to _sessions[session_id]
InStore == 0

\* a local not yet assigned
Unbound == 0 - 1

Handler(request) ==
    [ pc |-> "chat", request |-> request, found |-> FALSE,
      session |-> Unbound, target |-> Unbound, conversation_history |-> Unbound,
      buying_signals |-> <<>>, i |-> 0, lead_signals |-> NoReturn,
      response_text |-> "", mentioned_properties |-> <<>>, concurrent |-> FALSE ]

NoHandler == [Handler([message |-> "", session_id |-> ""]) EXCEPT !.pc = "idle"]

\* a request is in the handler's hands
InFlight(task) == turn[task].pc \notin {"idle", "done"}

\* process_chat_message has begun and not returned
Running(task) == turn[task].pc \notin {"idle", "chat", "done"}

\* Every thread of a thread pool may take its next step.
MayRun_thread_pool(task) == TRUE

\* The handlers are coroutines of one event loop (uvicorn.run, one process)
\* and no handler awaits: the loop enters another handler only when the one
\* running has returned.
MayRun(task) == \A other \in Tasks \ {task} : ~Running(other)

\* the dict a local refers to
Deref(session_id, ref) == IF ref = InStore THEN sessions[session_id] ELSE ret[ref]

\* the lists of a dict shared with every other dict of _sessions
Mutated_sharing_lists(session_id, ref, value) ==
    IF ref = InStore
    THEN <<[other \in DOMAIN sessions |->
               IF other = session_id THEN value
               ELSE [sessions[other] EXCEPT !.messages = value.messages]], ret>>
    ELSE <<sessions, [ret EXCEPT ![ref] = value]>>

\* <<_sessions, replaced dicts>> once the dict a local refers to is mutated into value
Mutated(session_id, ref, value) ==
    IF ref = InStore
    THEN <<[sessions EXCEPT ![session_id] = value], ret>>
    ELSE <<sessions, [ret EXCEPT ![ref] = value]>>

\* one handler moves on; nothing is replaced in _sessions
Step(task, locals, heap) ==
    /\ turn' = [turn EXCEPT ![task] = locals]
    /\ sessions' = heap[1]
    /\ ret' = heap[2]
    /\ UNCHANGED <<build, now, requests, result, args>>

Heap == <<sessions, ret>>

\* the else branch of get_session: the id is present, the dict is touched
Touched(session_id) == <<[sessions EXCEPT ![session_id].updated_at = now], ret>>

\* the handlers that hold the dict of the id in a local
Holders(session_id) ==
    { other \in Tasks :
        /\ turn[other].request.session_id = session_id
        /\ InStore \in {turn[other].session, turn[other].target, turn[other].conversation_history} }

\* the locals of a handler whose dict has left _sessions for place k of the replaced dicts
Rebound(locals, k) ==
    [locals EXCEPT !.session = IF @ = InStore THEN k ELSE @,
                   !.target = IF @ = InStore THEN k ELSE @,
                   !.conversation_history = IF @ = InStore THEN k ELSE @]

\* the requests of the clients of SpecServing
ServingRequests ==
    {[message |-> m, session_id |-> sid] :
        m \in {IntroMessage, ContactMessage}, sid \in {"s1", "s2"}}

\* the requests of the clients of SpecInterleaved
InterleavedRequests ==
    { [message |-> IntroMessage, session_id |-> "s1"],
      [message |-> ContactMessage, session_id |-> "s2"] }

\* a client sends a request
receive(task, request) ==
    /\ turn[task].pc \in {"idle", "done"}
    /\ requests < MaxServed
    /\ requests' = requests + 1
    /\ turn' = [turn EXCEPT ![task] =
                   [Handler(request) EXCEPT !.concurrent = \E other \in Tasks \ {task} : InFlight(other)]]
    /\ UNCHANGED <<build, sessions, now, result, args, ret>>

\* app.py chat, up to the call of process_chat_message
chat_enter(task) ==
    /\ turn[task].pc = "chat"
    /\ LET valid == validate_chat_request(turn[task].request)
       IN  IF valid[1]
           THEN /\ turn' = [turn EXCEPT ![task].pc = "get_session"]
                /\ UNCHANGED result
           ELSE /\ turn' = [turn EXCEPT ![task].pc = "done"]
                /\ result' = [fn |-> "chat", status |-> 400, body |-> [detail |-> valid[2]]]
    /\ UNCHANGED <<build, sessions, now, requests, args, ret>>

\* get_session: if session_id not in _sessions
get_session_test(task) ==
    /\ turn[task].pc = "get_session"
    /\ Step(task, [turn[task] EXCEPT !.found = turn[task].request.session_id \in DOMAIN sessions,
                                     !.pc = "get_session_set"], Heap)

\* get_session: _sessions[session_id] = {...}, or the touch of updated_at.
\* A dict the assignment replaces stays with the handlers that hold it.
get_session_set(task) ==
    /\ turn[task].pc = "get_session_set"
    /\ LET session_id == turn[task].request.session_id
           locals == [turn[task] EXCEPT !.pc = "get_session_return"]
       IN  IF turn[task].found
           THEN Step(task, locals, Touched(session_id))
           ELSE /\ sessions' = (session_id :> NewSession(session_id, now)) @@ sessions
                /\ IF session_id \in DOMAIN sessions /\ Holders(session_id) # {}
                   THEN /\ ret' = Append(ret, sessions[session_id])
                        /\ turn' = [other \in Tasks |->
                                       IF other = task THEN locals
                                       ELSE IF other \in Holders(session_id)
                                       THEN Rebound(turn[other], Len(ret) + 1)
                                       ELSE turn[other]]
                   ELSE /\ ret' = ret
                        /\ turn' = [turn EXCEPT ![task] = locals]
                /\ UNCHANGED <<build, now, requests, result, args>>

\* get_session: return _sessions[session_id]; session = get_session(session_id)
get_session_return(task) ==
    /\ turn[task].pc = "get_session_return"
    /\ Step(task, [turn[task] EXCEPT !.session = InStore, !.pc = "add_message_user"], Heap)

\* add_message: session = get_session(session_id)
add_message_get(task, role) ==
    /\ turn[task].pc = "add_message_" \o role
    /\ Step(task, [turn[task] EXCEPT !.target = InStore, !.pc = "append_" \o role],
            Touched(turn[task].request.session_id))

\* add_message: session["messages"].append(...); session["updated_at"] = ...
add_message_append(task, role) ==
    /\ turn[task].pc = "append_" \o role
    /\ LET session_id == turn[task].request.session_id
           session == Deref(session_id, turn[task].target)
           content == IF role = "user" THEN turn[task].request.message ELSE turn[task].response_text
       IN  Step(task, [turn[task] EXCEPT !.target = Unbound,
                                         !.pc = IF role = "user" THEN "contact" ELSE "properties"],
                Mutated(session_id, turn[task].target,
                        [session EXCEPT !.messages = Append(@, [role |-> role, content |-> content,
                                                                  timestamp |-> now]),
                                        !.updated_at = now]))

\* session["lead_info"].update(new_contact_info)
merge_contact_info(task) ==
    /\ turn[task].pc = "contact"
    /\ LET session_id == turn[task].request.session_id
           session == Deref(session_id, turn[task].session)
           new_contact_info == ContactOf[turn[task].request.message]
       IN  Step(task, [turn[task] EXCEPT !.pc = "history"],
                IF new_contact_info # EmptyDict
                THEN Mutated(session_id, turn[task].session,
                             [session EXCEPT !.lead_info = DictUpdate(@, new_contact_info)])
                ELSE Heap)

\* conversation_history = get_conversation_history(session_id), the list
\* itself; buying_signals = detect_buying_signals(...)
read_history(task) ==
    /\ turn[task].pc = "history"
    /\ Step(task, [turn[task] EXCEPT !.conversation_history = InStore,
                                     !.buying_signals = SignalsOf[turn[task].request.message],
                                     !.i = 1,
                                     !.pc = "signals"],
            Touched(turn[task].request.session_id))

\* for signal in buying_signals: add_buying_signal: session = get_session(session_id)
add_buying_signal_get(task) ==
    /\ turn[task].pc = "signals"
    /\ IF turn[task].i > Len(turn[task].buying_signals)
       THEN Step(task, [turn[task] EXCEPT !.pc = "score"], Heap)
       ELSE Step(task, [turn[task] EXCEPT !.target = InStore, !.pc = "signal_test"],
                 Touched(turn[task].request.session_id))

\* add_buying_signal: if signal not in session["buying_signals"]
add_buying_signal_test(task) ==
    /\ turn[task].pc = "signal_test"
    /\ LET session == Deref(turn[task].request.session_id, turn[task].target)
       IN  IF ~In(turn[task].buying_signals[turn[task].i], session.buying_signals)
           THEN Step(task, [turn[task] EXCEPT !.pc = "signal_append"], Heap)
           ELSE Step(task, [turn[task] EXCEPT !.target = Unbound, !.i = @ + 1, !.pc = "signals"], Heap)

\* add_buying_signal: session["buying_signals"].append(signal)
add_buying_signal_append(task) ==
    /\ turn[task].pc = "signal_append"
    /\ LET session_id == turn[task].request.session_id
           session == Deref(session_id, turn[task].target)
       IN  Step(task, [turn[task] EXCEPT !.target = Unbound, !.i = @ + 1, !.pc = "signals"],
                Mutated(session_id, turn[task].target,
                        [session EXCEPT !.buying_signals = Append(@, turn[task].buying_signals[turn[task].i])]))

\* all_signals = session.get("buying_signals", []); calculate_intent_score;
\* generate_lead_signals_response
score_lead(task) ==
    /\ turn[task].pc = "score"
    /\ LET session_id == turn[task].request.session_id
           all_signals == Deref(session_id, turn[task].session).buying_signals
           conversation_history == Deref(session_id, turn[task].conversation_history).messages
           intent_score == calculate_intent_score(all_signals, Len(conversation_history))
       IN  Step(task, [turn[task] EXCEPT !.lead_signals =
                                             generate_lead_signals_response(all_signals, intent_score,
                                                                            conversation_history),
                                         !.pc = "generate"], Heap)

\* retrieve_context, format_context_for_prompt, generate_response
retrieve_and_generate(task, completion) ==
    /\ turn[task].pc = "generate"
    /\ Step(task, [turn[task] EXCEPT !.response_text = generate_response(completion),
                                     !.pc = "add_message_assistant"], Heap)

\* mentioned_properties = identify_mentioned_properties(response_text)
list_mentioned_properties(task) ==
    /\ turn[task].pc = "properties"
    /\ \E mentioned_properties \in MentionedIn[turn[task].response_text] :
           Step(task, [turn[task] EXCEPT !.mentioned_properties = mentioned_properties,
                                         !.i = 1,
                                         !.pc = "property"], Heap)

\* for prop in mentioned_properties: add_property_viewed: session = get_session(session_id)
add_property_viewed_get(task) ==
    /\ turn[task].pc = "property"
    /\ IF turn[task].i > Len(turn[task].mentioned_properties)
       THEN Step(task, [turn[task] EXCEPT !.pc = "respond"], Heap)
       ELSE Step(task, [turn[task] EXCEPT !.target = InStore, !.pc = "property_test"],
                 Touched(turn[task].request.session_id))

\* add_property_viewed: if property_id not in session["properties_viewed"]
add_property_viewed_test(task) ==
    /\ turn[task].pc = "property_test"
    /\ LET session == Deref(turn[task].request.session_id, turn[task].target)
       IN  IF ~In(turn[task].mentioned_properties[turn[task].i], session.properties_viewed)
           THEN Step(task, [turn[task] EXCEPT !.pc = "property_append"], Heap)
           ELSE Step(task, [turn[task] EXCEPT !.target = Unbound, !.i = @ + 1, !.pc = "property"], Heap)

\* add_property_viewed: session["properties_viewed"].append(property_id)
add_property_viewed_append(task) ==
    /\ turn[task].pc = "property_append"
    /\ LET session_id == turn[task].request.session_id
           session == Deref(session_id, turn[task].target)
       IN  Step(task, [turn[task] EXCEPT !.target = Unbound, !.i = @ + 1, !.pc = "property"],
                Mutated(session_id, turn[task].target,
                        [session EXCEPT !.properties_viewed =
                                            Append(@, turn[task].mentioned_properties[turn[task].i])]))

\* citations, images and follow-up prompt; return response
respond(task, vectorstore) ==
    /\ turn[task].pc = "respond"
    /\ LET request == turn[task].request
           session == Deref(request.session_id, turn[task].session)
           retrieved == RetrievedFrom[vectorstore]
           mentioned_properties == turn[task].mentioned_properties
           lead_signals == turn[task].lead_signals
           include_images == WantsImages[request.message] \/ Len(mentioned_properties) > 0
           ranked_images == RankedFor[<<request.message, vectorstore>>]
           relevant_images == IF include_images /\ retrieved[2] # <<>>
                              THEN SubSeq(ranked_images, 1, IF Len(ranked_images) < 3
                                                            THEN Len(ranked_images) ELSE 3)
                              ELSE <<>>
       IN  /\ result' = [ fn |-> "chat", status |-> 200,
                          body |-> [ response |-> turn[task].response_text,
                                     properties_mentioned |-> mentioned_properties,
                                     citations |-> CitationsOf[vectorstore],
                                     images |-> relevant_images,
                                     lead_signals |-> lead_signals,
                                     follow_up_prompt |->
                                         generate_follow_up_prompt(lead_signals.intent, session.buying_signals,
                                                                   session.lead_info,
                                                                   lead_signals.recommended_action) ] ]
           /\ args' = Append(args, request)
           /\ turn' = [turn EXCEPT ![task] =
                          [NoHandler EXCEPT !.pc = "done", !.request = request,
                                            !.concurrent = turn[task].concurrent]]
    /\ UNCHANGED <<build, sessions, now, requests, ret>>

\* the next statement of a handler
Statement(task) ==
    \/ chat_enter(task)
    \/ get_session_test(task)
    \/ get_session_set(task)
    \/ get_session_return(task)
    \/ \E role \in {"user", "assistant"} : add_message_get(task, role)
    \/ \E role \in {"user", "assistant"} : add_message_append(task, role)
    \/ merge_contact_info(task)
    \/ read_history(task)
    \/ add_buying_signal_get(task)
    \/ add_buying_signal_test(task)
    \/ add_buying_signal_append(task)
    \/ score_lead(task)
    \/ retrieve_and_generate(task, PropertyReply)
    \/ list_mentioned_properties(task)
    \/ add_property_viewed_get(task)
    \/ add_property_viewed_test(task)
    \/ add_property_viewed_append(task)
    \/ respond(task, SomeDocs)

\* the requests answered before the handlers are watched
Earlier == {<<>>, <<[message |-> ContactMessage, session_id |-> "s1"]>>}

\* _sessions as the turns of those requests, one after the other, leave it
RECURSIVE Served(_, _)
Served(answered, n) ==
    IF n = 0 THEN {EmptyDict}
    ELSE UNION { {made.sessions :
                     made \in process_chat_message(store, answered[n].message, answered[n].session_id,
                                                   DefaultContext, SomeDocs, PropertyReply, 0)}
                 : store \in Served(answered, n - 1) }

InitServing ==
    /\ build \in Builds
    /\ now = 0
    /\ requests = 0
    /\ result = NoReturn
    /\ turn = [task \in Tasks |-> NoHandler]
    /\ ret = <<>>
    /\ args \in Earlier
    /\ sessions \in Served(args, Len(args))

\* the server as it is run: run_server starts one uvicorn process
NextServing ==
    \/ \E task \in Tasks, request \in ServingRequests : receive(task, request)
    \/ \E task \in Tasks : MayRun(task) /\ Statement(task)

SpecServing == InitServing /\ [][NextServing]_vars

\* every schedule of the handlers' statements, the event loop's among them
NextInterleaved ==
    \/ \E task \in Tasks, request \in InterleavedRequests : receive(task, request)
    \/ \E task \in Tasks : Statement(task)

SpecInterleaved == InitServing /\ [][NextInterleaved]_vars

\* the statements of a handler, in order
Statements ==
    << "chat", "get_session", "get_session_set", "get_session_return",
       "add_message_user", "append_user", "contact", "history",
       "signals", "signal_test", "signal_append", "score", "generate",
       "add_message_assistant", "append_assistant",
       "properties", "property", "property_test", "property_append", "respond" >>

\* the positions of a handler that has got past the last statement named
Past(pc) ==
    {Statements[j] : j \in {j \in 1..Len(Statements) :
                              \E i \in 1..Len(Statements) : Statements[i] = pc /\ i < j}}

\* how many elements of a list satisfy a test
Count(list, Test(_)) == Cardinality({i \in 1..Len(list) : Test(list[i])})

\* the handlers of requests on a session id that have got past a statement
InFlightPast(session_id, pc) ==
    {task \in Tasks : turn[task].request.session_id = session_id /\ turn[task].pc \in Past(pc)}

\* the messages of the requests on a session id that were answered, and of
\* those whose handlers have got past a statement
MessagesThrough(session_id, pc) ==
    {args[i].message : i \in {i \in 1..Len(args) : args[i].session_id = session_id}}
    \cup {turn[task].request.message : task \in InFlightPast(session_id, pc)}

\* how many of them carry the message
TimesThrough(session_id, pc, message) ==
    Count(args, LAMBDA request : request.session_id = session_id /\ request.message = message)
    + Cardinality({task \in InFlightPast(session_id, pc) : turn[task].request.message = message})

\* C29: no update of a turn is lost, whichever way the server interleaves
\* the statements of two turns on one session id, two first turns on a new
\* id included.  At every moment the session's log holds the user message
\* of every turn that has appended it and one reply for every turn that
\* has appended its reply, the signal list holds every tag of every turn
\* that is through the signal loop and holds no tag twice, and lead_info
\* holds every contact field of every turn that has merged its fields,
\* with a value one of the turns extracted; so it is once both turns have
\* completed.
C29_NoLostUpdate ==
    \A session_id \in {"s1", "s2"} :
        MessagesThrough(session_id, "append_user") # {}
        => /\ session_id \in DOMAIN sessions
           /\ LET session == sessions[session_id]
              IN  /\ \A message \in Messages :
                        Count(session.messages,
                              LAMBDA logged : logged.role = "user" /\ logged.content = message)
                          = TimesThrough(session_id, "append_user", message)
                  /\ Count(session.messages, LAMBDA logged : logged.role = "assistant")
                        = Cardinality({i \in 1..Len(args) : args[i].session_id = session_id})
                          + Cardinality(InFlightPast(session_id, "append_assistant"))
                  /\ \A message \in MessagesThrough(session_id, "signal_append") :
                        ToSet(SignalsOf[message]) \subseteq ToSet(session.buying_signals)
                  /\ Len(session.buying_signals) = Cardinality(ToSet(session.buying_signals))
                  /\ \A message \in MessagesThrough(session_id, "contact") :
                        DOMAIN ContactOf[message] \subseteq DOMAIN session.lead_info
                  /\ \A field \in DOMAIN session.lead_info :
                        \E message \in MessagesThrough(session_id, "append_user") :
                            /\ field \in DOMAIN ContactOf[message]
                            /\ session.lead_info[field] = ContactOf[message][field]

\* two first turns on a session id the store did not hold, the second
\* request sent while the first was in flight: both are answered, the log
\* holds both messages and both replies, lead_info the phone number of one
\* and the e-mail address of the other
C29_Witness ==
    /\ Len(args) = 2
    /\ args[1] = [message |-> IntroMessage, session_id |-> "s2"]
    /\ args[2] = [message |-> ContactMessage, session_id |-> "s2"]
    /\ \A task \in Tasks : turn[task].pc = "done"
    /\ \E task \in Tasks : turn[task].concurrent
    /\ Len(sessions["s2"].messages) = 4
    /\ sessions["s2"].buying_signals = <<"current_situation_shared">>
    /\ DOMAIN sessions["s2"].lead_info = {"name", "phone", "email"}

\* C28: a statement of a turn for one session id leaves the session of
\* every other id as it was (messages, buying_signals, properties_viewed,
\* lead_info, lead_status), in _sessions and among the replaced dicts, and
\* neither creates nor removes it, however the statements of turns for
\* different ids interleave.
C28_OtherSessionsUnchanged ==
    [][\A task \in Tasks :
          (turn'[task] # turn[task] /\ InFlight(task))
          => LET Same(before, after) ==
                     /\ after.messages = before.messages
                     /\ after.buying_signals = before.buying_signals
                     /\ after.properties_viewed = before.properties_viewed
                     /\ after.lead_info = before.lead_info
                     /\ after.lead_status = before.lead_status
                 others == ((DOMAIN sessions) \cup (DOMAIN sessions')) \ {turn[task].request.session_id}
             IN  /\ \A session_id \in others :
                       /\ session_id \in DOMAIN sessions /\ session_id \in DOMAIN sessions'
                       /\ Same(sessions[session_id], sessions'[session_id])
                 /\ \A k \in 1..Len(ret) :
                       ret[k].session_id # turn[task].request.session_id => Same(ret[k], ret'[k])]_vars

\* the turns of two session ids half-way, their statements interleaved:
\* each log holds the message of its own turn only
C28_Witness ==
    /\ args = <<>>
    /\ turn["a"].request.session_id = "s1" /\ turn["a"].pc = "contact"
    /\ turn["b"].request.session_id = "s2" /\ turn["b"].pc = "score"
    /\ Len(sessions["s1"].messages) = 1 /\ sessions["s1"].messages[1].content = IntroMessage
    /\ Len(sessions["s2"].messages) = 1 /\ sessions["s2"].messages[1].content = ContactMessage
    /\ sessions["s1"].lead_info = EmptyDict
    /\ DOMAIN sessions["s2"].lead_info = {"name", "email"}

====
